---- MODULE Spec2Model ----
(***************************************************************************)
(* A model of chatbot-tui: the conversation model and the session store    *)
(* (chatbot_tui/session.py), the completion client (chatbot_tui/llm.py)    *)
(* and the interactive loop (chatbot_tui/main.py).                         *)
(*                                                                         *)
(* Python objects live in a heap (reference -> Session value) so that the  *)
(* identity of a Session, which `_sessions` and `current_session` share,   *)
(* is part of the state.  `_sessions` is a Python dict, which iterates in  *)
(* insertion order: it is a sequence of (key, reference) entries.          *)
(***************************************************************************)
EXTENDS Integers, Sequences, FiniteSets, TLC

----------------------------------------------------------------------------
(* Bounds of the model. *)

\* uuid4() values handed out over a run (ids are 1..MaxIds, never reused)
MaxIds == 2
\* readings of datetime.now(): 0..MaxTime, never decreasing
MaxTime == 1
\* messages a session can hold
MaxMsgs == 2
\* messages the sessions in memory hold in total when a chat turn starts
MaxHistory == 3
\* chunks one completion response can deliver (TurnSpec)
MaxChunks == 3
\* chunks one completion response can deliver (LoopSpec)
MaxLoopChunks == 2

----------------------------------------------------------------------------
(* Values. *)

\* Python's None (Optional[str] fields, Optional[Session]) and JSON's null
None == "<None>"
JsonNull == "<null>"
\* the null reference: current_session = None
NoneRef == 0

Ids == 1..MaxIds
Times == 0..MaxTime
Roles == {"user", "assistant", "system"}
\* message texts and system prompts the callers use
Texts == {"", "P"}
Prompts == {None, "", "P"}
\* the system prompts a caller of create_session passes in Spec
CallerPrompts == {None, "P"}

\* truthiness of an Optional[str]: None and "" are falsy
Truthy(s) == s # None /\ s # ""

----------------------------------------------------------------------------
(* Conversation model: Message and Session. *)

\* a Message whose role is "assistant" whatever role is passed
Message_always_assistant(role, content, t) ==
    [role |-> "assistant", content |-> content, timestamp |-> t]

\* Message(role, content) with the timestamp default factory read at t
Message(role, content, t) ==
    [role |-> role, content |-> content, timestamp |-> t]

Message_to_dict(m) ==
    [role |-> m.role, content |-> m.content, timestamp |-> m.timestamp]

\* data["role"], data["content"], data["timestamp"]: KeyError when one is missing
Message_from_dict_ok(data) ==
    {"role", "content", "timestamp"} \subseteq DOMAIN data

Message_from_dict(data) ==
    [role |-> data["role"], content |-> data["content"],
     timestamp |-> data["timestamp"]]

\* Session(system_prompt=...) with the id and created_at default factories
NewSession(id, t, system_prompt) ==
    [id |-> id, messages |-> <<>>, created_at |-> t,
     system_prompt |-> system_prompt]

\* add_message that puts the message at the head of the list
add_message_first(s, message) ==
    [s EXCEPT !.messages = <<message>> \o @]

\* self.messages.append(message)
add_message(s, message) ==
    [s EXCEPT !.messages = Append(@, message)]

Session_to_dict(s) ==
    [id |-> s.id,
     messages |-> [i \in 1..Len(s.messages) |-> Message_to_dict(s.messages[i])],
     created_at |-> s.created_at,
     system_prompt |-> s.system_prompt]

\* data["id"], data["messages"], data["created_at"] and each message's keys
Session_from_dict_ok(data) ==
    /\ {"id", "messages", "created_at"} \subseteq DOMAIN data
    /\ \A i \in 1..Len(data["messages"]) :
          Message_from_dict_ok(data["messages"][i])

\* from_dict that does not pass system_prompt on to the constructor
Session_from_dict_no_prompt(data) ==
    [id |-> data["id"],
     messages |-> [i \in 1..Len(data["messages"]) |->
                      Message_from_dict(data["messages"][i])],
     created_at |-> data["created_at"],
     system_prompt |-> None]

Session_from_dict(data) ==
    [id |-> data["id"],
     messages |-> [i \in 1..Len(data["messages"]) |->
                      Message_from_dict(data["messages"][i])],
     created_at |-> data["created_at"],
     system_prompt |-> IF "system_prompt" \in DOMAIN data
                       THEN data["system_prompt"] ELSE None]

\* the projection without the system entry
get_messages_for_api_no_system(s) ==
    [i \in 1..Len(s.messages) |->
        [role |-> s.messages[i].role, content |-> s.messages[i].content]]

get_messages_for_api(s) ==
    LET messages == [i \in 1..Len(s.messages) |->
                        [role |-> s.messages[i].role,
                         content |-> s.messages[i].content]]
    IN  IF Truthy(s.system_prompt)
        THEN <<[role |-> "system", content |-> s.system_prompt]>> \o messages
        ELSE messages

----------------------------------------------------------------------------
(* JSON text of a file.  kind "dict": a JSON object, data its members;     *)
(* kind "list": valid JSON that is not an object; kind "garbage": text     *)
(* json.load rejects.                                                      *)

NoData == [k \in {} |-> 0]

\* the members whose Python type is Optional: the only ones that can be None
OptionalKeys == {"system_prompt"}

\* json.dump(d, f): None is written as null
json_dump(d) ==
    [kind |-> "dict",
     data |-> [k \in DOMAIN d |->
                  IF k \in OptionalKeys /\ d[k] = None THEN JsonNull ELSE d[k]]]

\* json.load(f) of a JSON object: null is read as None
json_load(text) ==
    [k \in DOMAIN text.data |->
        IF k \in OptionalKeys /\ text.data[k] = JsonNull
        THEN None ELSE text.data[k]]

----------------------------------------------------------------------------
(* Python dict, in insertion order: a sequence of [key, val] entries. *)

DictKeys(d) == {d[i].key : i \in 1..Len(d)}

DictGet(d, k) == LET i == CHOOSE j \in 1..Len(d) : d[j].key = k IN d[i].val

\* d[k] = v: an existing key keeps its position, a new key goes last
DictSet(d, k, v) ==
    IF k \in DictKeys(d)
    THEN [i \in 1..Len(d) |-> IF d[i].key = k THEN [key |-> k, val |-> v] ELSE d[i]]
    ELSE Append(d, [key |-> k, val |-> v])

\* del d[k]
DictDel(d, k) == SelectSeq(d, LAMBDA e : e.key # k)

\* list(d.values())
DictValues(d) == [i \in 1..Len(d) |-> d[i].val]

----------------------------------------------------------------------------
(* The heap of Session objects.  A manager value m bundles the heap with   *)
(* the SessionManager's fields and the files of sessions_dir:              *)
(*   m.heap            reference -> Session value                          *)
(*   m.sessions        SessionManager._sessions (key -> reference)         *)
(*   m.current_session SessionManager.current_session (reference or None)  *)
(*   m.files           file stem -> JSON text, the *.json of sessions_dir  *)

\* a reference no live object has: the smallest one
Alloc(h) ==
    CHOOSE r \in 1..(Cardinality(DOMAIN h) + 1) :
        /\ r \notin DOMAIN h
        /\ \A q \in 1..(r - 1) : q \in DOMAIN h

\* The objects nothing refers to any more are reclaimed.  A reference is
\* only ever compared with another, so the live objects are renumbered:
\* those of the dict in its order, then the current one if the dict does
\* not hold it.
Reclaim(m) ==
    LET vals == DictValues(m.sessions)
        inDict == {vals[i] : i \in 1..Len(vals)}
        order == IF m.current_session \in inDict \cup {NoneRef}
                 THEN vals ELSE Append(vals, m.current_session)
        new(r) == IF r = NoneRef THEN NoneRef
                  ELSE CHOOSE i \in 1..Len(order) : order[i] = r
    IN  [heap |-> [i \in 1..Len(order) |-> m.heap[order[i]]],
         sessions |-> [i \in 1..Len(m.sessions) |->
                          [key |-> m.sessions[i].key, val |-> new(m.sessions[i].val)]],
         current_session |-> new(m.current_session),
         files |-> m.files]

----------------------------------------------------------------------------
(* SessionManager.  Every operation takes the manager value and returns    *)
(* [m |-> the manager afterwards, exc |-> the exception raised or "none",  *)
(*  ret |-> the reference returned or NoneRef].                            *)

Ok(m, ret) == [m |-> m, exc |-> "none", ret |-> ret]
Raise(m, exc) == [m |-> m, exc |-> exc, ret |-> NoneRef]

\* create_session that writes the new session's file at once
create_session_saves(m, system_prompt, id, t) ==
    LET r == Alloc(m.heap)
        session == NewSession(id, t, system_prompt)
    IN  Ok([m EXCEPT !.heap = (r :> session) @@ m.heap,
                     !.sessions = DictSet(m.sessions, session.id, r),
                     !.current_session = r,
                     !.files = (session.id :> json_dump(Session_to_dict(session)))
                                  @@ m.files],
           r)

\* create_session(system_prompt) with uuid4() = id and datetime.now() = t
create_session(m, system_prompt, id, t) ==
    LET r == Alloc(m.heap)
        session == NewSession(id, t, system_prompt)
    IN  Ok([m EXCEPT !.heap = (r :> session) @@ m.heap,
                     !.sessions = DictSet(m.sessions, session.id, r),
                     !.current_session = r],
           r)

\* sessions.sort(key=created_at, reverse=True): a stable sort, so sessions
\* with equal created_at keep the order of the dict
RECURSIVE SortNewestFirst(_, _)
SortNewestFirst(h, refs) ==
    IF refs = <<>> THEN <<>>
    ELSE LET i == CHOOSE j \in 1..Len(refs) :
                    /\ \A k \in 1..Len(refs) :
                          h[refs[k]].created_at <= h[refs[j]].created_at
                    /\ \A k \in 1..(j - 1) :
                          h[refs[k]].created_at < h[refs[j]].created_at
             rest == [k \in 1..(Len(refs) - 1) |->
                         IF k < i THEN refs[k] ELSE refs[k + 1]]
         IN  <<refs[i]>> \o SortNewestFirst(h, rest)

\* list_sessions(): the references, newest first
list_sessions(m) == SortNewestFirst(m.heap, DictValues(m.sessions))

get_session(m, session_id) ==
    IF session_id \notin DictKeys(m.sessions)
    THEN Raise(m, "KeyError")
    ELSE Ok(m, DictGet(m.sessions, session_id))

\* switch_to_session that takes the first session of the dict
switch_to_session_first(m, session_id) ==
    LET g == get_session(m, session_id)
    IN  IF g.exc # "none" THEN Raise(m, g.exc)
        ELSE Ok([m EXCEPT !.current_session = DictValues(m.sessions)[1]], NoneRef)

switch_to_session(m, session_id) ==
    LET g == get_session(m, session_id)
    IN  IF g.exc # "none" THEN Raise(m, g.exc)
        ELSE Ok([m EXCEPT !.current_session = g.ret], NoneRef)

\* delete_session without the branch that creates a session when none is left
delete_session_no_create(m, session_id, id, t) ==
    IF session_id \notin DictKeys(m.sessions)
    THEN Raise(m, "KeyError")
    ELSE
      LET m1 == [m EXCEPT
                   !.files = [f \in (DOMAIN m.files) \ {session_id} |-> m.files[f]],
                   !.sessions = DictDel(m.sessions, session_id)]
      IN  IF /\ m1.current_session # NoneRef
             /\ m1.heap[m1.current_session].id = session_id
          THEN IF m1.sessions # <<>>
               THEN Ok([m1 EXCEPT !.current_session = DictValues(m1.sessions)[1]],
                       NoneRef)
               ELSE Ok([m1 EXCEPT !.current_session = NoneRef], NoneRef)
          ELSE Ok(m1, NoneRef)

\* delete_session that leaves current_session alone when other sessions remain
delete_session_keep_current(m, session_id, id, t) ==
    IF session_id \notin DictKeys(m.sessions)
    THEN Raise(m, "KeyError")
    ELSE
      LET m1 == [m EXCEPT
                   !.files = [f \in (DOMAIN m.files) \ {session_id} |-> m.files[f]],
                   !.sessions = DictDel(m.sessions, session_id)]
      IN  IF /\ m1.current_session # NoneRef
             /\ m1.heap[m1.current_session].id = session_id
             /\ m1.sessions = <<>>
          THEN Ok(create_session(m1, None, id, t).m, NoneRef)
          ELSE Ok(m1, NoneRef)

\* delete_session that removes the file before it looks the id up
delete_session_unlink_first(m, session_id, id, t) ==
    LET m0 == [m EXCEPT
                 !.files = [f \in (DOMAIN m.files) \ {session_id} |-> m.files[f]]]
    IN
    IF session_id \notin DictKeys(m.sessions)
    THEN Raise(m0, "KeyError")
    ELSE
      LET m1 == [m0 EXCEPT !.sessions = DictDel(m.sessions, session_id)]
      IN  IF /\ m1.current_session # NoneRef
             /\ m1.heap[m1.current_session].id = session_id
          THEN IF m1.sessions # <<>>
               THEN Ok([m1 EXCEPT !.current_session = DictValues(m1.sessions)[1]],
                       NoneRef)
               ELSE Ok(create_session(m1, None, id, t).m, NoneRef)
          ELSE Ok(m1, NoneRef)

\* delete_session(session_id); id and t are what uuid4() and datetime.now()
\* give if the last session goes and a new one is created
\* delete_session that leaves the session's file in the directory
delete_session_keeps_file(m, session_id, id, t) ==
    IF session_id \notin DictKeys(m.sessions)
    THEN Raise(m, "KeyError")
    ELSE
      LET m1 == [m EXCEPT !.sessions = DictDel(m.sessions, session_id)]
      IN  IF /\ m1.current_session # NoneRef
             /\ m1.heap[m1.current_session].id = session_id
          THEN IF m1.sessions # <<>>
               THEN Ok([m1 EXCEPT !.current_session = DictValues(m1.sessions)[1]],
                       NoneRef)
               ELSE Ok(create_session(m1, None, id, t).m, NoneRef)
          ELSE Ok(m1, NoneRef)

delete_session(m, session_id, id, t) ==
    IF session_id \notin DictKeys(m.sessions)
    THEN Raise(m, "KeyError")
    ELSE
      LET m1 == [m EXCEPT
                   !.files = [f \in (DOMAIN m.files) \ {session_id} |-> m.files[f]],
                   !.sessions = DictDel(m.sessions, session_id)]
      IN  IF /\ m1.current_session # NoneRef
             /\ m1.heap[m1.current_session].id = session_id
          THEN IF m1.sessions # <<>>
               THEN Ok([m1 EXCEPT !.current_session = DictValues(m1.sessions)[1]],
                       NoneRef)
               ELSE Ok(create_session(m1, None, id, t).m, NoneRef)
          ELSE Ok(m1, NoneRef)

\* delete_session_io that removes the map entry before the file
delete_session_io_del_first(m, session_id, id, t, fault) ==
    IF /\ fault = "unlink"
       /\ session_id \in DictKeys(m.sessions)
       /\ session_id \in DOMAIN m.files
    THEN Raise([m EXCEPT !.sessions = DictDel(m.sessions, session_id)], "OSError")
    ELSE delete_session(m, session_id, id, t)

\* delete_session on a directory where session_file.unlink() can raise
\* OSError: the exception leaves delete_session before `del`
delete_session_io(m, session_id, id, t, fault) ==
    IF /\ fault = "unlink"
       /\ session_id \in DictKeys(m.sessions)
       /\ session_id \in DOMAIN m.files
    THEN Raise(m, "OSError")
    ELSE delete_session(m, session_id, id, t)

\* delete_session creates a session when it removes the current one and
\* no other is left
DeleteCreates(m, session_id) ==
    /\ session_id \in DictKeys(m.sessions)
    /\ m.current_session # NoneRef
    /\ m.heap[m.current_session].id = session_id
    /\ DictKeys(m.sessions) = {session_id}

\* save_session that does not overwrite a record
save_session_keeps_existing(m, r) ==
    LET session == m.heap[r]
    IN  IF session.id \in DOMAIN m.files THEN Ok(m, NoneRef)
        ELSE Ok([m EXCEPT !.files =
                    (session.id :> json_dump(Session_to_dict(session))) @@ m.files],
                NoneRef)

save_session(m, r) ==
    LET session == m.heap[r]
    IN  Ok([m EXCEPT !.files =
                (session.id :> json_dump(Session_to_dict(session))) @@ m.files],
           NoneRef)

\* save_session on a directory where open(session_file, "w") can raise
\* OSError, leaving the file as it was, and where json.dump can raise it
\* after open has truncated the file, leaving text that is not JSON
save_session_io(m, r, fault) ==
    IF fault = "open" THEN Raise(m, "OSError")
    ELSE IF fault = "write"
    THEN Raise([m EXCEPT !.files = (m.heap[r].id :> [kind |-> "garbage"]) @@ m.files],
               "OSError")
    ELSE save_session(m, r)

\* json.load and Session.from_dict of one file: the Session value, or the
\* exception raised
ReadRecord(text) ==
    IF text.kind = "garbage" THEN [exc |-> "JSONDecodeError", session |-> NoData]
    ELSE IF text.kind # "dict" THEN [exc |-> "TypeError", session |-> NoData]
    ELSE LET data == json_load(text)
         IN  IF Session_from_dict_ok(data)
             THEN [exc |-> "none", session |-> Session_from_dict(data)]
             ELSE [exc |-> "KeyError", session |-> NoData]

\* load_session that skips a record no Session can be built from
load_session_skips(m, session_id) ==
    IF session_id \notin DOMAIN m.files
    THEN Raise(m, "KeyError")
    ELSE LET rd == ReadRecord(m.files[session_id])
             r == Alloc(m.heap)
         IN  IF rd.exc # "none" THEN Ok(m, NoneRef)
             ELSE Ok([m EXCEPT !.heap = (r :> rd.session) @@ m.heap,
                               !.sessions = DictSet(m.sessions, session_id, r)],
                     r)

load_session(m, session_id) ==
    IF session_id \notin DOMAIN m.files
    THEN Raise(m, "KeyError")
    ELSE LET rd == ReadRecord(m.files[session_id])
             r == Alloc(m.heap)
         IN  IF rd.exc # "none" THEN Raise(m, rd.exc)
             ELSE Ok([m EXCEPT !.heap = (r :> rd.session) @@ m.heap,
                               !.sessions = DictSet(m.sessions, session_id, r)],
                     r)

\* the loop of load_all_sessions over the files in the order glob gives
\* them; an exception other than JSONDecodeError and KeyError ends it
RECURSIVE LoadFiles(_, _)
LoadFiles(m, order) ==
    IF order = <<>> THEN Ok(m, NoneRef)
    ELSE LET rd == ReadRecord(m.files[Head(order)])
             r == Alloc(m.heap)
         IN  IF rd.exc = "none"
             THEN LoadFiles([m EXCEPT
                               !.heap = (r :> rd.session) @@ m.heap,
                               !.sessions = DictSet(m.sessions, rd.session.id, r)],
                            Tail(order))
             ELSE IF rd.exc \in {"JSONDecodeError", "KeyError"}
             THEN LoadFiles(m, Tail(order))
             ELSE Raise(m, rd.exc)

\* load_all_sessions without its last three lines
load_all_sessions_keeps_current(m, order) == LoadFiles(m, order)

load_all_sessions(m, order) ==
    LET l == LoadFiles(m, order)
        sessions == list_sessions(l.m)
    IN  IF l.exc # "none" THEN l
        ELSE IF sessions # <<>>
        THEN Ok([l.m EXCEPT !.current_session = sessions[1]], NoneRef)
        ELSE Ok(l.m, NoneRef)

\* the orders in which glob("*.json") can give the files
GlobOrders(files) ==
    {o \in [1..Cardinality(DOMAIN files) -> DOMAIN files] :
        \A i, j \in DOMAIN o : i # j => o[i] # o[j]}

\* SessionManager(sessions_dir) on a directory holding files
NewManager(files) ==
    [heap |-> NoData, sessions |-> <<>>, current_session |-> NoneRef,
     files |-> files]

\* the constructor without the test `if not self._sessions`
SessionManager_init_always_creates(files, order, id, t) ==
    LET l == load_all_sessions(NewManager(files), order)
    IN  IF l.exc # "none" THEN l
        ELSE Ok(create_session(l.m, None, id, t).m, NoneRef)

SessionManager_init(files, order, id, t) ==
    LET l == load_all_sessions(NewManager(files), order)
    IN  IF l.exc # "none" THEN l
        ELSE IF l.m.sessions = <<>>
        THEN Ok(create_session(l.m, None, id, t).m, NoneRef)
        ELSE l

\* the constructor creates a session when the scan ends with nothing loaded:
\* every file is one that load_all_sessions skips
InitCreates(files) ==
    \A f \in DOMAIN files :
        ReadRecord(files[f]).exc \in {"JSONDecodeError", "KeyError"}

----------------------------------------------------------------------------
(* State. *)

VARIABLES
    heap,               \* the Session objects: reference -> Session value
    sessions,           \* SessionManager._sessions
    current_session,    \* SessionManager.current_session
    files,              \* the *.json files of sessions_dir
    sessions_dir,       \* "absent", "dir", or "unreliable": a directory on
                        \* which file operations can fail
    now,                \* the last reading of datetime.now()
    uuids,              \* how many uuid4() values have been handed out
    pc,                 \* where the program is
    last,               \* the last call: [op, arg, exc] and, from before
                        \* it, cur (id of the current session) and n
                        \* (entries of _sessions)
    out,                \* the list the last call returned
    assistant_content,  \* run_chat_loop's accumulator
    streaming_content,  \* ChatUI.streaming_content
    response,           \* the chunks the endpoint has delivered in this turn
    shown,              \* what the UI has displayed: display_error / display_info
    turn                \* the turn in progress: its session and user message

storeVars == <<heap, sessions, current_session, files>>
envVars == <<now, uuids>>
loopVars == <<assistant_content, streaming_content, response, shown, turn>>
vars == <<heap, sessions, current_session, files, sessions_dir, now, uuids,
          pc, last, out,
          assistant_content, streaming_content, response, shown, turn>>

\* sessions_dir.mkdir(parents=True, exist_ok=True)
mkdir(dir) == IF dir = "absent" THEN "dir" ELSE dir

\* the ways a file operation can fail: none on a directory in order, any of
\* kinds on a directory that is "unreliable" (read-only, full, ...)
IoFaults(dir, kinds) ==
    IF dir = "unreliable" THEN {"none"} \cup kinds ELSE {"none"}

Mgr == [heap |-> heap, sessions |-> sessions,
        current_session |-> current_session, files |-> files]

\* the manager after a call, with the objects nothing refers to reclaimed
SetMgr(m) ==
    LET g == Reclaim(m)
    IN  /\ heap' = g.heap
        /\ sessions' = g.sessions
        /\ current_session' = g.current_session
        /\ files' = g.files

CurrentId == IF current_session = NoneRef THEN 0 ELSE heap[current_session].id

Call(op, arg, res) ==
    [op |-> op, arg |-> arg, exc |-> res.exc, cur |-> CurrentId,
     n |-> Len(sessions)]

NoTurn == [active |-> FALSE, session |-> NoneRef, before |-> <<>>, text |-> ""]

\* the references a caller can name: the sessions of the map and the current one
Reachable == {sessions[i].val : i \in 1..Len(sessions)}
                \cup ({current_session} \ {NoneRef})

InitCommon ==
    /\ heap = NoData
    /\ sessions = <<>>
    /\ current_session = NoneRef
    /\ files = NoData
    /\ sessions_dir = "absent"
    /\ now = 0
    /\ uuids = 0
    /\ last = [op |-> "none", arg |-> 0, exc |-> "none", cur |-> 0, n |-> 0]
    /\ out = <<>>
    /\ assistant_content = ""
    /\ streaming_content = ""
    /\ response = <<>>
    /\ shown = <<>>
    /\ turn = NoTurn

----------------------------------------------------------------------------
(* Spec: a caller of SessionManager making any call in any order. *)

Init ==
    /\ InitCommon
    /\ pc = "new"

\* SessionManager(sessions_dir): also a restart on the same directory
Construct ==
    /\ InitCreates(files) => uuids < MaxIds
    /\ \E order \in GlobOrders(files), t \in now..MaxTime :
          LET res == SessionManager_init(files, order, uuids + 1, t)
          IN  /\ IF res.exc = "none"
                 THEN SetMgr(res.m) /\ pc' = "ready"
                 ELSE SetMgr(NewManager(files)) /\ pc' = "new"
              /\ uuids' = IF InitCreates(files) THEN uuids + 1 ELSE uuids
              /\ now' = IF InitCreates(files) THEN t ELSE now
              /\ last' = Call("init", 0, res)
    /\ UNCHANGED <<out, loopVars>>
    /\ sessions_dir' = mkdir(sessions_dir)

CreateSession ==
    /\ pc = "ready"
    /\ uuids < MaxIds
    /\ \E system_prompt \in CallerPrompts, t \in now..MaxTime :
          LET res == create_session(Mgr, system_prompt, uuids + 1, t)
          IN  /\ SetMgr(res.m)
              /\ now' = t
              /\ last' = Call("create_session", system_prompt, res)
    /\ uuids' = uuids + 1
    /\ UNCHANGED <<pc, out, loopVars>>
    /\ UNCHANGED sessions_dir

ListSessions ==
    /\ pc = "ready"
    /\ last' = Call("list_sessions", 0, Ok(Mgr, NoneRef))
    /\ UNCHANGED <<storeVars, envVars, pc, out, loopVars>>
    /\ UNCHANGED sessions_dir

GetSession ==
    /\ pc = "ready"
    /\ \E session_id \in Ids :
          LET res == get_session(Mgr, session_id)
          IN  /\ SetMgr(res.m)
              /\ last' = Call("get_session", session_id, res)
    /\ UNCHANGED <<envVars, pc, out, loopVars>>
    /\ UNCHANGED sessions_dir

SwitchToSession ==
    /\ pc = "ready"
    /\ \E session_id \in Ids :
          LET res == switch_to_session(Mgr, session_id)
          IN  /\ SetMgr(res.m)
              /\ last' = Call("switch_to_session", session_id, res)
    /\ UNCHANGED <<envVars, pc, out, loopVars>>
    /\ UNCHANGED sessions_dir

DeleteSession ==
    /\ pc = "ready"
    /\ \E session_id \in Ids, t \in now..MaxTime,
          fault \in IoFaults(sessions_dir, {"unlink"}) :
          LET res == delete_session_io(Mgr, session_id, uuids + 1, t, fault)
              creates == DeleteCreates(Mgr, session_id) /\ res.exc = "none"
          IN  /\ creates => uuids < MaxIds
              /\ ~creates => t = now
              /\ SetMgr(res.m)
              /\ uuids' = IF creates THEN uuids + 1 ELSE uuids
              /\ now' = t
              /\ last' = Call("delete_session", session_id, res)
    /\ UNCHANGED <<pc, out, loopVars>>
    /\ UNCHANGED sessions_dir

SaveSession ==
    /\ pc = "ready"
    /\ \E r \in Reachable, fault \in IoFaults(sessions_dir, {"open", "write"}) :
          LET res == save_session_io(Mgr, r, fault)
          IN  /\ SetMgr(res.m)
              /\ last' = Call("save_session", heap[r].id, res)
    /\ UNCHANGED <<envVars, pc, out, loopVars>>
    /\ UNCHANGED sessions_dir

LoadSession ==
    /\ pc = "ready"
    /\ \E session_id \in Ids :
          LET res == load_session(Mgr, session_id)
          IN  /\ SetMgr(res.m)
              /\ last' = Call("load_session", session_id, res)
    /\ UNCHANGED <<envVars, pc, out, loopVars>>
    /\ UNCHANGED sessions_dir

LoadAllSessions ==
    /\ pc = "ready"
    /\ \E order \in GlobOrders(files) :
          LET res == load_all_sessions(Mgr, order)
          IN  /\ SetMgr(res.m)
              /\ last' = Call("load_all_sessions", 0, res)
    /\ UNCHANGED <<envVars, pc, out, loopVars>>
    /\ UNCHANGED sessions_dir

Next ==
    \/ Construct
    \/ CreateSession
    \/ ListSessions
    \/ GetSession
    \/ SwitchToSession
    \/ DeleteSession
    \/ SaveSession
    \/ LoadSession
    \/ LoadAllSessions

Spec == Init /\ [][Next]_vars

----------------------------------------------------------------------------
(* BootSpec: a SessionManager on a directory that earlier runs, and other  *)
(* programs, have left: files 1.json .. k.json, each a record save_session *)
(* wrote or a file no Session can be built from.                           *)

\* what the file of stem id can hold: a saved session with one message, text
\* that is not JSON, JSON that is not an object, an object without created_at
RecordsOf(id) ==
    {json_dump(Session_to_dict(add_message(NewSession(id, t, None),
                                           Message("user", "P", t)))) : t \in Times}
       \cup {[kind |-> "garbage"], [kind |-> "list"],
             json_dump([id |-> id, messages |-> <<>>])}

Directories(k) ==
    {f \in [1..k -> UNION {RecordsOf(id) : id \in 1..k}] :
        \A id \in 1..k : f[id] \in RecordsOf(id)}

\* the files a Session can be built from
WellFormed(f) == {id \in DOMAIN f : ReadRecord(f[id]).exc = "none"}

\* the latest created_at of the records, 0 when there is none
Latest(f) ==
    IF WellFormed(f) = {} THEN 0
    ELSE CHOOSE t \in Times :
            /\ \E id \in WellFormed(f) : ReadRecord(f[id]).session.created_at = t
            /\ \A id \in WellFormed(f) : ReadRecord(f[id]).session.created_at <= t

BootInit ==
    /\ heap = NoData
    /\ sessions = <<>>
    /\ current_session = NoneRef
    /\ \E k \in 0..MaxIds :
          /\ files \in Directories(k)
          /\ uuids = k
          /\ sessions_dir \in {"absent", "dir"}
          /\ sessions_dir = "absent" => k = 0
    /\ now = Latest(files)
    /\ pc = "new"
    /\ last = [op |-> "none", arg |-> 0, exc |-> "none", cur |-> 0, n |-> 0]
    /\ out = <<>>
    /\ assistant_content = ""
    /\ streaming_content = ""
    /\ response = <<>>
    /\ shown = <<>>
    /\ turn = NoTurn

BootNext ==
    \/ Construct
    \/ LoadAllSessions
    \/ GetSession
    \/ SwitchToSession
    \/ DeleteSession

BootSpec == BootInit /\ [][BootNext]_vars

----------------------------------------------------------------------------
(* ReloadSpec: a SessionManager on such a directory whose sessions in      *)
(* memory move away from their records before they are loaded again.       *)

\* session_manager.current_session.add_message(user_message), not yet saved
AppendUnsaved ==
    /\ pc = "ready"
    /\ current_session # NoneRef
    /\ Len(heap[current_session].messages) < MaxMsgs
    /\ heap' = [heap EXCEPT ![current_session] =
                    add_message(@, Message("user", "hi", now))]
    /\ last' = Call("add_message", 0, Ok(Mgr, NoneRef))
    /\ UNCHANGED <<sessions, current_session, files, envVars, pc, out, loopVars>>
    /\ UNCHANGED sessions_dir

ReloadNext ==
    \/ Construct
    \/ CreateSession
    \/ AppendUnsaved
    \/ LoadSession
    \/ LoadAllSessions

ReloadSpec == BootInit /\ [][ReloadNext]_vars

----------------------------------------------------------------------------
(* FaultSpec: a caller of SessionManager on a directory where writing and  *)
(* removing a file can fail with OSError.                                  *)

FaultInit ==
    /\ heap = NoData
    /\ sessions = <<>>
    /\ current_session = NoneRef
    /\ files = NoData
    /\ sessions_dir = "unreliable"
    /\ now = 0
    /\ uuids = 0
    /\ pc = "new"
    /\ last = [op |-> "none", arg |-> 0, exc |-> "none", cur |-> 0, n |-> 0]
    /\ out = <<>>
    /\ assistant_content = ""
    /\ streaming_content = ""
    /\ response = <<>>
    /\ shown = <<>>
    /\ turn = NoTurn

FaultNext ==
    \/ Construct
    \/ CreateSession
    \/ SwitchToSession
    \/ SaveSession
    \/ DeleteSession

FaultSpec == FaultInit /\ [][FaultNext]_vars

----------------------------------------------------------------------------
(* PureSpec: the conversation model on any Session.  A manager holds one   *)
(* Session, drawn from the bounded sets, as its current session; the       *)
(* caller either projects it for the API, or saves it, clears the dict and *)
(* loads it back (tests/test_session.py, test_load_session).               *)

RECURSIVE SeqsUpTo(_, _)
SeqsUpTo(S, n) ==
    IF n = 0 THEN {<<>>}
    ELSE LET shorter == SeqsUpTo(S, n - 1)
         IN  shorter \cup {Append(q, x) : q \in {r \in shorter : Len(r) = n - 1},
                                           x \in S}

AnyMessage == [role : Roles, content : Texts, timestamp : Times]

AnySession ==
    [id : Ids, messages : SeqsUpTo(AnyMessage, MaxMsgs), created_at : Times,
     system_prompt : Prompts]

PureInit ==
    /\ \E s \in AnySession :
          /\ heap = <<s>>
          /\ sessions = <<[key |-> s.id, val |-> 1]>>
    /\ current_session = 1
    /\ files = NoData
    /\ sessions_dir = "dir"
    /\ now = MaxTime
    /\ uuids = MaxIds
    /\ pc = "pure"
    /\ last = [op |-> "none", arg |-> 0, exc |-> "none", cur |-> 0, n |-> 0]
    /\ out = <<>>
    /\ assistant_content = ""
    /\ streaming_content = ""
    /\ response = <<>>
    /\ shown = <<>>
    /\ turn = NoTurn

\* a get_messages_for_api that puts the system entry into the session's list
PureApi_stores_system ==
    /\ pc \in {"pure", "session"}
    /\ out' = get_messages_for_api(heap[current_session])
    /\ heap' = [heap EXCEPT ![current_session].messages =
                    IF Truthy(heap[current_session].system_prompt)
                    THEN <<[role |-> "system",
                            content |-> heap[current_session].system_prompt,
                            timestamp |-> now]>> \o @
                    ELSE @]
    /\ last' = Call("get_messages_for_api", CurrentId, Ok(Mgr, NoneRef))
    /\ pc' = IF pc = "pure" THEN "api" ELSE pc
    /\ UNCHANGED <<sessions, current_session, files, envVars, loopVars>>
    /\ UNCHANGED sessions_dir

\* session.get_messages_for_api(): the list is built anew, the session's own
\* list is read only
PureApi ==
    /\ pc \in {"pure", "session"}
    /\ out' = get_messages_for_api(heap[current_session])
    /\ last' = Call("get_messages_for_api", CurrentId, Ok(Mgr, NoneRef))
    /\ pc' = IF pc = "pure" THEN "api" ELSE pc
    /\ UNCHANGED <<storeVars, envVars, loopVars>>
    /\ UNCHANGED sessions_dir

\* session_manager.save_session(session)
PureSave ==
    /\ pc \in {"pure", "session"}
    /\ LET res == save_session(Mgr, current_session)
       IN  /\ SetMgr(res.m)
           /\ last' = Call("save_session", CurrentId, res)
    /\ pc' = IF pc = "pure" THEN "saved" ELSE pc
    /\ UNCHANGED <<envVars, out, loopVars>>
    /\ UNCHANGED sessions_dir

\* session_manager._sessions.clear(): the caller still holds the session
PureClear ==
    /\ pc = "saved"
    /\ sessions' = <<>>
    /\ last' = Call("clear", 0, Ok(Mgr, NoneRef))
    /\ pc' = "cleared"
    /\ UNCHANGED <<heap, current_session, files, envVars, out, loopVars>>
    /\ UNCHANGED sessions_dir

\* session_manager.load_session(session.id)
PureLoad ==
    /\ pc = "cleared"
    /\ LET res == load_session(Mgr, CurrentId)
       IN  /\ SetMgr(res.m)
           /\ last' = Call("load_session", CurrentId, res)
    /\ pc' = "loaded"
    /\ UNCHANGED <<envVars, out, loopVars>>
    /\ UNCHANGED sessions_dir

PureNext ==
    \/ PureApi
    \/ PureSave
    \/ PureClear
    \/ PureLoad

PureSpec == PureInit /\ [][PureNext]_vars

\* One session from its construction on: add_message, get_messages_for_api
\* and save_session in any order.
SessionInit ==
    /\ \E p \in Prompts :
          /\ heap = <<NewSession(1, 0, p)>>
          /\ sessions = <<[key |-> 1, val |-> 1]>>
    /\ current_session = 1
    /\ files = NoData
    /\ sessions_dir = "dir"
    /\ now = 0
    /\ uuids = 1
    /\ pc = "session"
    /\ last = [op |-> "none", arg |-> 0, exc |-> "none", cur |-> 0, n |-> 0]
    /\ out = <<>>
    /\ assistant_content = ""
    /\ streaming_content = ""
    /\ response = <<>>
    /\ shown = <<>>
    /\ turn = NoTurn

\* session.add_message(Message(role, content)), timestamp datetime.now()
AddMessage ==
    /\ pc = "session"
    /\ Len(heap[current_session].messages) < MaxMsgs
    /\ \E role \in Roles, content \in Texts, t \in now..MaxTime :
          /\ now' = t
          /\ heap' = [heap EXCEPT
                         ![current_session] =
                             add_message(@, Message(role, content, t))]
          /\ last' = Call("add_message", Message(role, content, t),
                          Ok(Mgr, NoneRef))
    /\ UNCHANGED <<sessions, current_session, files, uuids, pc, out, loopVars>>
    /\ UNCHANGED sessions_dir

SessionNext ==
    \/ AddMessage
    \/ PureApi
    \/ PureSave

SessionSpec == SessionInit /\ [][SessionNext]_vars

----------------------------------------------------------------------------
(* The completion client (llm.py). *)

\* A chunk of the streamed response: choices may be empty, and the delta's
\* content may be None, "" or text.
Chunks ==
    {[choices |-> FALSE, content |-> None], [choices |-> TRUE, content |-> None],
     [choices |-> TRUE, content |-> ""], [choices |-> TRUE, content |-> "a"],
     [choices |-> TRUE, content |-> "b"]}

\* the chunks of LoopSpec: one without text, one with text
LoopChunks ==
    {[choices |-> TRUE, content |-> None], [choices |-> TRUE, content |-> "a"]}

\* what the request or the iteration of the response can raise
Failures == {"APIError", "APITimeoutError", "Exception"}

\* isinstance(e, APIError): APITimeoutError is a subclass of APIError
IsAPIError(e) == e \in {"APIError", "APITimeoutError"}

\* the except clauses of chat_stream, tried in order: the LLMError's message
LLMErrorOf(e) ==
    IF IsAPIError(e) THEN "API error"
    ELSE IF e = "APITimeoutError" THEN "Request timed out"
    ELSE "Unexpected error"

\* main() builds LLMClient(base_url, api_key): no system prompt
client_system_prompt == None

\* chat_stream with the system entry after the caller's messages
chat_stream_messages_last(system_prompt, messages) ==
    IF Truthy(system_prompt)
    THEN messages \o <<[role |-> "system", content |-> system_prompt]>>
    ELSE messages

\* the messages chat_stream sends to the endpoint
chat_stream_messages(system_prompt, messages) ==
    IF Truthy(system_prompt)
    THEN <<[role |-> "system", content |-> system_prompt]>> \o messages
    ELSE messages

\* chat_stream yields the content of a chunk that has choices and a truthy
\* content
Yields(chunk) == chunk.choices /\ Truthy(chunk.content)

----------------------------------------------------------------------------
(* ClientSpec: LLMClient(base_url, api_key, system_prompt=p) and one call  *)
(* of chat_stream(messages), up to the request it sends.                   *)

\* the lists of {role, content} dicts a caller can pass
CallerMessages == SeqsUpTo([role : Roles, content : Texts], MaxMsgs)

ClientInit ==
    /\ InitCommon
    /\ pc = "client"

\* chat_stream(messages) up to create(model, messages, stream=True): `out` is
\* the list sent; the name `messages` is rebound to a new list when the
\* system entry is prepended, so the list the caller holds stays as it was
ChatStreamCall ==
    /\ pc = "client"
    /\ \E system_prompt \in Prompts, messages \in CallerMessages :
          /\ out' = chat_stream_messages(system_prompt, messages)
          /\ last' = [op |-> "chat_stream", arg |-> messages, exc |-> "none",
                      cur |-> 0, n |-> 0,
                      system_prompt |-> system_prompt, after |-> messages]
    /\ pc' = "sent"
    /\ UNCHANGED <<storeVars, envVars, loopVars, sessions_dir>>

ClientNext == ChatStreamCall

ClientSpec == ClientInit /\ [][ClientNext]_vars

----------------------------------------------------------------------------
(* The UI (ui.py): the streaming buffer and the panels printed.            *)

\* a buffer that keeps the last chunk only
add_streaming_content_replace(buffer, chunk) == chunk

\* self.streaming_content += chunk
add_streaming_content(buffer, chunk) == buffer \o chunk

clear_streaming_content == ""

display_error(message) == [kind |-> "error", text |-> message]

display_info(message) == [kind |-> "info", text |-> message]

----------------------------------------------------------------------------
(* LoopSpec: main() and run_chat_loop.                                     *)
(*   pc = "start"      main() has not built the SessionManager yet         *)
(*   pc = "prompt"     at ui.get_user_input()                              *)
(*   pc = "request"    the user message is committed; awaiting create()    *)
(*   pc = "streaming"  awaiting the next chunk of the response             *)
(*   pc = "exit"       main() returned 0                                   *)
(*   pc = "crashed"    an exception left run_chat_loop; main() returned 1  *)
(* shown holds what the UI printed since the last input was read.          *)

\* the text a user types for a chat turn: not empty, not starting with "/"
UserTexts == {"hi"}

\* user_input[1:].split(maxsplit=1) of the command lines a user types; a
\* session id argument is an id of the model or one that names no session
NoArgs == 0
CommandLines ==
    {<<>>, <<"exit">>, <<"quit">>, <<"new">>, <<"new", "P">>, <<"list">>,
     <<"switch">>, <<"delete">>, <<"foo">>}
        \cup {<<c, id>> : c \in {"switch", "delete"}, id \in Ids}

\* handle_command: [m |-> the manager afterwards, exit |-> its result,
\* shown |-> what it printed, exc |-> the exception that leaves it or
\* "none"]; id and t are what uuid4() and datetime.now() give if a session is
\* created, fault the way the removal of a file fails
handle_command(command, args, m, id, t, fault) ==
    IF command = "exit" \/ command = "quit"
    THEN [m |-> m, exit |-> TRUE, shown |-> <<>>, exc |-> "none"]
    ELSE IF command = "new"
    THEN [m |-> create_session(m, None, id, t).m, exit |-> FALSE,
          shown |-> <<display_info("Created new session")>>, exc |-> "none"]
    ELSE IF command = "list"
    THEN [m |-> m, exit |-> FALSE, shown |-> <<display_info("sessions list")>>,
          exc |-> "none"]
    ELSE IF command = "switch"
    THEN IF args = NoArgs
         THEN [m |-> m, exit |-> FALSE,
               shown |-> <<display_error("Usage: /switch <session_id>")>>,
               exc |-> "none"]
         ELSE LET res == switch_to_session(m, args)
              IN  IF res.exc = "KeyError"
                  THEN [m |-> res.m, exit |-> FALSE,
                        shown |-> <<display_error("Session not found")>>,
                        exc |-> "none"]
                  ELSE [m |-> res.m, exit |-> FALSE,
                        shown |-> <<display_info("Switched to session")>>,
                        exc |-> "none"]
    ELSE IF command = "delete"
    THEN IF args = NoArgs
         THEN [m |-> m, exit |-> FALSE,
               shown |-> <<display_error("Usage: /delete <session_id>")>>,
               exc |-> "none"]
         ELSE LET res == delete_session_io(m, args, id, t, fault)
              IN  IF res.exc = "KeyError"
                  THEN [m |-> res.m, exit |-> FALSE,
                        shown |-> <<display_error("Session not found")>>,
                        exc |-> "none"]
                  ELSE IF res.exc # "none"
                  THEN [m |-> res.m, exit |-> FALSE, shown |-> <<>>,
                        exc |-> res.exc]
                  ELSE [m |-> res.m, exit |-> FALSE,
                        shown |-> <<display_info("Deleted session")>>,
                        exc |-> "none"]
    ELSE [m |-> m, exit |-> FALSE,
          shown |-> <<display_error("Unknown command")>>, exc |-> "none"]

\* whether handling the command line draws a uuid4() and reads the clock
CommandCreates(parts, m) ==
    /\ parts # <<>>
    /\ \/ parts[1] = "new"
       \/ /\ parts[1] = "delete"
          /\ Len(parts) > 1
          /\ DeleteCreates(m, parts[2])

\* the messages of the sessions R of the heap h, counted
RECURSIVE TotalMsgs(_, _)
TotalMsgs(h, R) ==
    IF R = {} THEN 0
    ELSE LET r == CHOOSE x \in R : TRUE
         IN  Len(h[r].messages) + TotalMsgs(h, R \ {r})

\* assistant_content += chunk
accumulate_overwrite(content, chunk) == chunk

accumulate(content, chunk) == content \o chunk

LoopInit ==
    /\ InitCommon
    /\ pc = "start"

\* main(): SessionManager() and then run_chat_loop up to the first prompt
Start ==
    /\ pc = "start"
    /\ InitCreates(files) => uuids < MaxIds
    /\ \E order \in GlobOrders(files), t \in now..MaxTime :
          LET res == SessionManager_init(files, order, uuids + 1, t)
          IN  /\ SetMgr(res.m)
              /\ uuids' = IF InitCreates(files) THEN uuids + 1 ELSE uuids
              /\ now' = IF InitCreates(files) THEN t ELSE now
              /\ last' = [op |-> "start", arg |-> 0, exc |-> res.exc,
                          cur |-> 0, n |-> 0]
    /\ pc' = "prompt"
    /\ shown' = <<>>
    /\ UNCHANGED <<out, assistant_content, streaming_content, response, turn>>
    /\ sessions_dir' = mkdir(sessions_dir)

\* get_user_input() returns "": continue
EmptyLine ==
    /\ pc = "prompt"
    /\ last' = Call("empty", 0, Ok(Mgr, NoneRef))
    /\ shown' = <<>>
    /\ UNCHANGED <<storeVars, envVars, pc, out, assistant_content,
                   streaming_content, response, turn>>
    /\ UNCHANGED sessions_dir

\* get_user_input() raises EOFError or KeyboardInterrupt: break
EndOfInput ==
    /\ pc = "prompt"
    /\ last' = Call("eof", 0, Ok(Mgr, NoneRef))
    /\ pc' = "exit"
    /\ shown' = <<>>
    /\ UNCHANGED <<storeVars, envVars, out, assistant_content,
                   streaming_content, response, turn>>
    /\ UNCHANGED sessions_dir

\* a line starting with "/": parts[0] raises IndexError when nothing follows
\* the slash, and the exception leaves run_chat_loop
CommandLine ==
    /\ pc = "prompt"
    /\ \E parts \in CommandLines, t \in now..MaxTime,
          fault \in IoFaults(sessions_dir, {"unlink"}) :
          /\ (parts = <<>> \/ parts[1] # "delete") => fault = "none"
          /\ IF parts = <<>>
             THEN /\ t = now
                  /\ last' = Call("/", 0, Raise(Mgr, "IndexError"))
                  /\ pc' = "crashed"
                  /\ shown' = <<display_error("Unexpected error")>>
                  /\ UNCHANGED <<storeVars, envVars>>
             ELSE LET command == parts[1]
                      args == IF Len(parts) > 1 THEN parts[2] ELSE NoArgs
                      res == handle_command(command, args, Mgr, uuids + 1, t, fault)
                      creates == CommandCreates(parts, Mgr) /\ res.exc = "none"
                  IN  /\ creates => uuids < MaxIds
                      /\ ~creates => t = now
                      /\ SetMgr(res.m)
                      /\ uuids' = IF creates THEN uuids + 1 ELSE uuids
                      /\ now' = t
                      /\ last' = [op |-> command,
                                  arg |-> IF command \in {"switch", "delete"}
                                          THEN args
                                          ELSE IF command = "new"
                                          THEN (IF Len(parts) > 1
                                                THEN parts[2] ELSE None)
                                          ELSE 0,
                                  exc |-> res.exc, cur |-> CurrentId,
                                  n |-> Len(sessions)]
                      /\ pc' = IF res.exc # "none" THEN "crashed"
                               ELSE IF res.exit THEN "exit" ELSE "prompt"
                      /\ shown' = IF res.exc # "none"
                                  THEN <<display_error("Unexpected error")>>
                                  ELSE res.shown
    /\ UNCHANGED <<out, assistant_content, streaming_content, response, turn>>
    /\ UNCHANGED sessions_dir

\* ChatInput with save_session called before add_message
ChatInput_save_first ==
    /\ pc = "prompt"
    /\ TotalMsgs(heap, DOMAIN heap) + 2 <= MaxHistory
    /\ \E user_input \in UserTexts, t \in {now} :
          LET user_message == Message("user", user_input, t)
              res == save_session(Mgr, current_session)
              h == [res.m.heap EXCEPT ![current_session] =
                                        add_message(@, user_message)]
          IN  /\ SetMgr([res.m EXCEPT !.heap = h])
              /\ now' = t
              /\ turn' = [active |-> TRUE, session |-> current_session,
                          before |-> heap[current_session].messages,
                          text |-> user_input]
              /\ out' = chat_stream_messages(client_system_prompt,
                            get_messages_for_api(h[current_session]))
              /\ last' = Call("chat", 0, res)
    /\ streaming_content' = clear_streaming_content
    /\ assistant_content' = ""
    /\ response' = <<>>
    /\ shown' = <<>>
    /\ pc' = "request"
    /\ UNCHANGED uuids
    /\ UNCHANGED sessions_dir

\* ChatInput that goes on to the request whatever save_session did
ChatInput_swallows ==
    /\ pc = "prompt"
    /\ TotalMsgs(heap, DOMAIN heap) + 2 <= MaxHistory
    /\ \E user_input \in UserTexts, t \in {now},
          fault \in IoFaults(sessions_dir, {"open", "write"}) :
          LET user_message == Message("user", user_input, t)
              h == [heap EXCEPT ![current_session] = add_message(@, user_message)]
              res == save_session_io([Mgr EXCEPT !.heap = h], current_session,
                                     fault)
          IN  /\ SetMgr(res.m)
              /\ now' = t
              /\ last' = Call("chat", 0, Ok(res.m, NoneRef))
              /\ turn' = [active |-> TRUE, session |-> current_session,
                          before |-> heap[current_session].messages,
                          text |-> user_input]
              /\ out' = chat_stream_messages(client_system_prompt,
                            get_messages_for_api(h[current_session]))
    /\ streaming_content' = clear_streaming_content
    /\ shown' = <<>>
    /\ pc' = "request"
    /\ assistant_content' = ""
    /\ response' = <<>>
    /\ UNCHANGED uuids
    /\ UNCHANGED sessions_dir

\* any other line: the user message is appended to the current session and
\* saved, the streaming buffer cleared, the API messages computed, and
\* chat_stream runs up to its await of create()
ChatInput ==
    /\ pc = "prompt"
    /\ TotalMsgs(heap, DOMAIN heap) + 2 <= MaxHistory
    /\ \E user_input \in UserTexts, t \in {now},
          fault \in IoFaults(sessions_dir, {"open", "write"}) :
          LET user_message == Message("user", user_input, t)
              h == [heap EXCEPT ![current_session] = add_message(@, user_message)]
              res == save_session_io([Mgr EXCEPT !.heap = h], current_session,
                                     fault)
          IN  /\ SetMgr(res.m)
              /\ now' = t
              /\ last' = Call("chat", 0, res)
              /\ IF res.exc = "none"
                 THEN /\ turn' = [active |-> TRUE, session |-> current_session,
                                  before |-> heap[current_session].messages,
                                  text |-> user_input]
                      /\ out' = chat_stream_messages(client_system_prompt,
                                    get_messages_for_api(h[current_session]))
                      /\ streaming_content' = clear_streaming_content
                      /\ shown' = <<>>
                      /\ pc' = "request"
                 ELSE /\ turn' = NoTurn
                      /\ out' = <<>>
                      /\ streaming_content' = streaming_content
                      /\ shown' = <<display_error("Unexpected error")>>
                      /\ pc' = "crashed"
    /\ assistant_content' = ""
    /\ response' = <<>>
    /\ UNCHANGED uuids
    /\ UNCHANGED sessions_dir

\* TurnFailed that commits what has been accumulated so far
TurnFailed_keeps_partial(e) ==
    /\ shown' = Append(shown, display_error(LLMErrorOf(e)))
    /\ streaming_content' = clear_streaming_content
    /\ last' = [op |-> "turn_failed", arg |-> Len(assistant_content),
                exc |-> "LLMError", cur |-> CurrentId, n |-> Len(response),
                cause |-> e]
    /\ IF assistant_content # ""
       THEN LET assistant_message == Message("assistant", assistant_content, now)
                h == [heap EXCEPT ![current_session] =
                                     add_message(@, assistant_message)]
                res == save_session([Mgr EXCEPT !.heap = h], current_session)
            IN  SetMgr(res.m)
       ELSE UNCHANGED storeVars
    /\ assistant_content' = ""
    /\ response' = <<>>
    /\ out' = <<>>
    /\ turn' = NoTurn
    /\ pc' = "prompt"
    /\ UNCHANGED envVars
    /\ UNCHANGED sessions_dir

\* TurnFailed that opens the request again instead of returning to the prompt
TurnFailed_retries(e) ==
    /\ shown' = <<display_error(LLMErrorOf(e))>>
    /\ streaming_content' = clear_streaming_content
    /\ last' = [op |-> "turn_failed", arg |-> Len(assistant_content),
                exc |-> "LLMError", cur |-> CurrentId, n |-> Len(response),
                cause |-> e]
    /\ assistant_content' = ""
    /\ response' = <<>>
    /\ pc' = "request"
    /\ UNCHANGED <<storeVars, envVars, out, turn>>
    /\ UNCHANGED sessions_dir

\* except LLMError: display_error, clear_streaming_content, next prompt
TurnFailed(e) ==
    /\ shown' = Append(shown, display_error(LLMErrorOf(e)))
    /\ streaming_content' = clear_streaming_content
    /\ last' = [op |-> "turn_failed", arg |-> Len(assistant_content),
                exc |-> "LLMError", cur |-> CurrentId, n |-> Len(response),
                cause |-> e]
    /\ assistant_content' = ""
    /\ response' = <<>>
    /\ out' = <<>>
    /\ turn' = NoTurn
    /\ pc' = "prompt"
    /\ UNCHANGED <<storeVars, envVars>>
    /\ UNCHANGED sessions_dir

\* client.chat.completions.create(...) returns the response
OpenRequest ==
    /\ pc = "request"
    /\ pc' = "streaming"
    /\ last' = Call("open", 0, Ok(Mgr, NoneRef))
    /\ UNCHANGED <<storeVars, envVars, out, loopVars>>
    /\ UNCHANGED sessions_dir

\* client.chat.completions.create(...) raises
OpenFails ==
    /\ pc = "request"
    /\ \E e \in Failures : TurnFailed(e)

\* the response delivers a chunk; if chat_stream yields its content the
\* loop body adds it to the accumulator and to the UI's streaming buffer
StreamChunkOf(chunks, max) ==
    /\ pc = "streaming"
    /\ Len(response) < max
    /\ \E chunk \in chunks :
          /\ response' = Append(response, chunk)
          /\ IF Yields(chunk)
             THEN /\ assistant_content' = accumulate(assistant_content, chunk.content)
                  /\ streaming_content' =
                        add_streaming_content(streaming_content, chunk.content)
             ELSE UNCHANGED <<assistant_content, streaming_content>>
    /\ last' = Call("chunk", 0, Ok(Mgr, NoneRef))
    /\ UNCHANGED <<storeVars, envVars, pc, out, shown, turn>>
    /\ UNCHANGED sessions_dir

StreamChunk == StreamChunkOf(LoopChunks, MaxLoopChunks)

\* the iteration of the response raises
StreamFails ==
    /\ pc = "streaming"
    /\ \E e \in Failures : TurnFailed(e)

\* Interrupt that commits what has been accumulated before it leaves
Interrupt_commits_partial ==
    /\ pc \in {"request", "streaming"}
    /\ last' = [op |-> "interrupt", arg |-> Len(assistant_content),
                exc |-> "CancelledError", cur |-> CurrentId,
                n |-> Len(response)]
    /\ IF assistant_content # ""
       THEN LET assistant_message == Message("assistant", assistant_content, now)
                h == [heap EXCEPT ![current_session] =
                                     add_message(@, assistant_message)]
                res == save_session([Mgr EXCEPT !.heap = h], current_session)
            IN  SetMgr(res.m)
       ELSE UNCHANGED storeVars
    /\ assistant_content' = ""
    /\ response' = <<>>
    /\ out' = <<>>
    /\ turn' = NoTurn
    /\ pc' = "exit"
    /\ UNCHANGED <<envVars, streaming_content, shown, sessions_dir>>

\* Ctrl+C while chat_stream awaits create() or the next chunk: the task is
\* cancelled at the await, CancelledError is no Exception and no LLMError, so
\* it leaves chat_stream and run_chat_loop, and main() returns 0 on the
\* KeyboardInterrupt that asyncio.run raises
Interrupt ==
    /\ pc \in {"request", "streaming"}
    /\ last' = [op |-> "interrupt", arg |-> Len(assistant_content),
                exc |-> "CancelledError", cur |-> CurrentId,
                n |-> Len(response)]
    /\ assistant_content' = ""
    /\ response' = <<>>
    /\ out' = <<>>
    /\ turn' = NoTurn
    /\ pc' = "exit"
    /\ UNCHANGED <<storeVars, envVars, streaming_content, shown, sessions_dir>>

\* StreamEnds without the test of the accumulator
StreamEnds_always_commits ==
    /\ pc = "streaming"
    /\ \E t \in {now} :
          LET assistant_message == Message("assistant", assistant_content, t)
              h == [heap EXCEPT ![current_session] =
                                   add_message(@, assistant_message)]
              res == save_session([Mgr EXCEPT !.heap = h], current_session)
          IN  /\ SetMgr(res.m)
              /\ now' = t
    /\ streaming_content' = clear_streaming_content
    /\ last' = [op |-> "turn_end", arg |-> Len(assistant_content),
                exc |-> "none", cur |-> CurrentId, n |-> Len(response)]
    /\ assistant_content' = ""
    /\ response' = <<>>
    /\ out' = <<>>
    /\ turn' = NoTurn
    /\ pc' = "prompt"
    /\ UNCHANGED <<uuids, shown>>
    /\ UNCHANGED sessions_dir

\* the response ends: the assistant message is appended and saved if the
\* accumulator is not empty, the streaming buffer cleared
StreamEnds ==
    /\ pc = "streaming"
    /\ \E t \in {now}, fault \in IoFaults(sessions_dir, {"open", "write"}) :
          IF assistant_content # ""
          THEN LET assistant_message == Message("assistant", assistant_content, t)
                   h == [heap EXCEPT ![current_session] =
                                        add_message(@, assistant_message)]
                   res == save_session_io([Mgr EXCEPT !.heap = h],
                                          current_session, fault)
               IN  /\ SetMgr(res.m)
                   /\ now' = t
                   /\ last' = [op |-> "turn_end", arg |-> Len(assistant_content),
                               exc |-> res.exc, cur |-> CurrentId,
                               n |-> Len(response)]
                   /\ IF res.exc = "none"
                      THEN /\ streaming_content' = clear_streaming_content
                           /\ shown' = shown
                           /\ pc' = "prompt"
                      ELSE /\ streaming_content' = streaming_content
                           /\ shown' = Append(shown,
                                              display_error("Unexpected error"))
                           /\ pc' = "crashed"
          ELSE /\ t = now
               /\ fault = "none"
               /\ UNCHANGED <<storeVars, now, shown>>
               /\ streaming_content' = clear_streaming_content
               /\ last' = [op |-> "turn_end", arg |-> Len(assistant_content),
                           exc |-> "none", cur |-> CurrentId,
                           n |-> Len(response)]
               /\ pc' = "prompt"
    /\ assistant_content' = ""
    /\ response' = <<>>
    /\ out' = <<>>
    /\ turn' = NoTurn
    /\ UNCHANGED uuids
    /\ UNCHANGED sessions_dir

LoopNext ==
    \/ Start
    \/ EmptyLine
    \/ EndOfInput
    \/ CommandLine
    \/ ChatInput
    \/ OpenRequest
    \/ OpenFails
    \/ StreamChunk
    \/ StreamFails
    \/ StreamEnds

LoopSpec == LoopInit /\ [][LoopNext]_vars

\* LoopSpec with the awaits of a chat turn completing: create() returns or
\* raises, and a response of finitely many chunks yields its next chunk,
\* raises or ends
LoopLiveSpec ==
    /\ LoopSpec
    /\ WF_vars(OpenRequest \/ OpenFails)
    /\ WF_vars(StreamChunk \/ StreamFails \/ StreamEnds)

----------------------------------------------------------------------------
(* RestartSpec: the program run again and again on the directory the       *)
(* earlier runs have left.                                                 *)

\* the process has ended and main() is run again: a new SessionManager on
\* the same directory, a new UI, and run_chat_loop up to the first prompt
Restart ==
    /\ pc \in {"exit", "crashed"}
    /\ InitCreates(files) => uuids < MaxIds
    /\ \E order \in GlobOrders(files), t \in now..MaxTime :
          LET res == SessionManager_init(files, order, uuids + 1, t)
          IN  /\ SetMgr(res.m)
              /\ uuids' = IF InitCreates(files) THEN uuids + 1 ELSE uuids
              /\ now' = IF InitCreates(files) THEN t ELSE now
              /\ last' = [op |-> "restart", arg |-> 0, exc |-> res.exc,
                          cur |-> CurrentId, n |-> Len(sessions)]
    /\ pc' = "prompt"
    /\ shown' = <<>>
    /\ out' = <<>>
    /\ assistant_content' = ""
    /\ streaming_content' = ""
    /\ response' = <<>>
    /\ turn' = NoTurn
    /\ sessions_dir' = mkdir(sessions_dir)

\* the runs end at the prompt; a turn that fails leaves the store as a turn
\* with an empty response does, so the turns here are those that end
RestartNext ==
    \/ Start
    \/ EndOfInput
    \/ CommandLine
    \/ ChatInput
    \/ OpenRequest
    \/ StreamChunk
    \/ StreamEnds
    \/ Restart

RestartSpec == LoopInit /\ [][RestartNext]_vars

----------------------------------------------------------------------------
(* FaultLoopSpec: main() and run_chat_loop on a directory where writing    *)
(* and removing a file can fail with OSError.                              *)

FaultLoopInit ==
    /\ heap = NoData
    /\ sessions = <<>>
    /\ current_session = NoneRef
    /\ files = NoData
    /\ sessions_dir = "unreliable"
    /\ now = 0
    /\ uuids = 0
    /\ pc = "start"
    /\ last = [op |-> "none", arg |-> 0, exc |-> "none", cur |-> 0, n |-> 0]
    /\ out = <<>>
    /\ assistant_content = ""
    /\ streaming_content = ""
    /\ response = <<>>
    /\ shown = <<>>
    /\ turn = NoTurn

FaultLoopSpec == FaultLoopInit /\ [][LoopNext]_vars

----------------------------------------------------------------------------
(* TurnSpec: the chat turns of a program that is given no command, with    *)
(* responses made of every kind of chunk.                                  *)

TurnChunk == StreamChunkOf(Chunks, MaxChunks)

TurnNext ==
    \/ Start
    \/ EmptyLine
    \/ ChatInput
    \/ OpenRequest
    \/ OpenFails
    \/ TurnChunk
    \/ StreamFails
    \/ StreamEnds
    \/ Interrupt

TurnSpec == LoopInit /\ [][TurnNext]_vars

\* the chat turns on a directory where writing a file can fail with OSError
FaultTurnSpec == FaultLoopInit /\ [][TurnNext]_vars

----------------------------------------------------------------------------
(* Claims about the session store, checked under Spec. *)

\* the session the dict holds under the id of the current session is the
\* current session itself
CurrentIsMapEntry ==
    /\ current_session # NoneRef
    /\ \E i \in 1..Len(sessions) :
          /\ sessions[i].key = heap[current_session].id
          /\ sessions[i].val = current_session

\* C1: once the constructor has returned, _sessions is never empty, whatever
\* create_session and delete_session calls are made.
C1_NeverEmpty ==
    pc = "ready" => sessions # <<>>

\* C1 witness: delete_session has just removed the only session of the dict
C1_Witness ==
    /\ pc = "ready"
    /\ last.op = "delete_session" /\ last.exc = "none" /\ last.n = 1
    /\ Len(sessions) = 1

\* C2: once the constructor has returned, current_session is not None and is
\* the very object _sessions holds under current_session.id.
C2_CurrentIsMapEntry ==
    pc = "ready" => CurrentIsMapEntry

\* C3: delete_session(id) of the current session leaves current_session set
\* to a session of the dict whose id is not id; when the deleted session was
\* the only one, exactly one session is created, it is the only session of
\* the dict and it is current.
C3_Step ==
    ( /\ last'.op = "delete_session" /\ last'.exc = "none"
      /\ current_session # NoneRef
      /\ heap[current_session].id = last'.arg )
    => /\ current_session' # NoneRef
       /\ \E i \in 1..Len(sessions') : sessions'[i].val = current_session'
       /\ heap'[current_session'].id # last'.arg
       /\ DictKeys(sessions) = {last'.arg}
             => /\ uuids' = uuids + 1
                /\ Len(sessions') = 1
                /\ sessions'[1].key = uuids + 1
                /\ sessions'[1].val = current_session'
                /\ heap'[current_session'] = NewSession(uuids + 1, now', None)

C3_DeleteCurrent == [][C3_Step]_vars

\* C3 witness: the current session, the only one, has just been deleted
C3_Witness ==
    /\ last.op = "delete_session" /\ last.exc = "none"
    /\ last.cur = last.arg /\ last.n = 1
    /\ current_session # NoneRef
    /\ heap[current_session].id = uuids

\* C9: list_sessions() returns every session of the dict once, newest
\* created_at first, and of two sessions created one right after the other
\* (consecutive uuid4() draws) the later one comes first.
C9_ListNewestFirst ==
    pc = "ready" =>
        LET l == list_sessions(Mgr)
        IN  /\ Len(l) = Len(sessions)
            /\ {l[i] : i \in 1..Len(l)} = {sessions[i].val : i \in 1..Len(sessions)}
            /\ \A i, j \in 1..Len(l) :
                  i < j => heap[l[i]].created_at >= heap[l[j]].created_at
            /\ \A i, j \in 1..Len(l) :
                  heap[l[j]].id = heap[l[i]].id + 1 => j < i

\* the part of C9 that the code keeps: every session once, created_at
\* descending
C9_SortedByCreatedAt ==
    pc = "ready" =>
        LET l == list_sessions(Mgr)
        IN  /\ Len(l) = Len(sessions)
            /\ {l[i] : i \in 1..Len(l)} = {sessions[i].val : i \in 1..Len(sessions)}
            /\ \A i, j \in 1..Len(l) :
                  i < j => heap[l[i]].created_at >= heap[l[j]].created_at

----------------------------------------------------------------------------
(* Claims about the chat turn, checked under LoopSpec and TurnSpec. *)

\* the messages the durable record of the session with this id holds
\* (<<>> with the flag ok FALSE when there is no readable record)
RecordMessages(f, id) ==
    IF id \in DOMAIN f /\ ReadRecord(f[id]).exc = "none"
    THEN [ok |-> TRUE, messages |-> ReadRecord(f[id]).session.messages]
    ELSE [ok |-> FALSE, messages |-> <<>>]

\* s holds the messages it had before the turn tr, then tr's user message
UserMessageIn(messages, tr) ==
    LET k == Len(tr.before) + 1
    IN  /\ Len(messages) >= k
        /\ SubSeq(messages, 1, k - 1) = tr.before
        /\ messages[k].role = "user"
        /\ messages[k].content = tr.text

\* the user message of turn tr is in its session and in the session's record
UserCommitted(h, f, tr) ==
    /\ UserMessageIn(h[tr.session].messages, tr)
    /\ RecordMessages(f, h[tr.session].id).ok
    /\ UserMessageIn(RecordMessages(f, h[tr.session].id).messages, tr)
    /\ RecordMessages(f, h[tr.session].id).messages[Len(tr.before) + 1]
          = h[tr.session].messages[Len(tr.before) + 1]

ErrorsShown(panels) ==
    Cardinality({i \in 1..Len(panels) : panels[i].kind = "error"})

\* C4: when the request or the stream fails, at the end of the turn the
\* session holds its pre-turn messages followed by the user message and
\* nothing else, the accumulated text is dropped, the durable record holds
\* the same list, and one error has been displayed.
C4_Step ==
    (last'.op = "turn_failed" /\ turn.active)
    => LET s == heap'[turn.session]
       IN  /\ current_session' = turn.session
           /\ Len(s.messages) = Len(turn.before) + 1
           /\ UserMessageIn(s.messages, turn)
           /\ \A i \in (Len(turn.before) + 1)..Len(s.messages) :
                 s.messages[i].role # "assistant"
           /\ assistant_content' = ""
           /\ streaming_content' = ""
           /\ RecordMessages(files', s.id).ok
           /\ RecordMessages(files', s.id).messages = s.messages
           /\ ErrorsShown(shown') = 1

C4_StreamFailure == [][C4_Step]_vars

\* C4 witness: a turn has failed after text had been accumulated
C4_Witness ==
    /\ pc = "prompt"
    /\ last.op = "turn_failed" /\ last.arg > 0 /\ last.n > 0
    /\ heap[current_session].messages # <<>>
    /\ ErrorsShown(shown) = 1

\* C5: from the moment the turn awaits the opening of the request until it
\* ends, in success, empty response or failure, the user message is in the
\* current session, after the messages the session had, and in the
\* durable record.
C5_Inv ==
    /\ pc \in {"request", "streaming"} => turn.active
    /\ turn.active =>
          /\ pc \in {"request", "streaming"}
          /\ turn.session = current_session
          /\ UserCommitted(heap, files, turn)

C5_Step ==
    (turn.active /\ ~turn'.active) => UserCommitted(heap', files', turn)

C5_UserMessageCommitted == [](C5_Inv) /\ [][C5_Step]_vars

\* C5 witness: the request is about to be opened for a session that had a
\* message already, and the record holds the new user message
C5_Witness ==
    /\ pc = "request"
    /\ turn.active
    /\ Len(turn.before) > 0
    /\ RecordMessages(files, heap[current_session].id).messages
          = heap[current_session].messages

\* the contents of the chunks that have one, in arrival order, concatenated
RECURSIVE ConcatPayloads(_)
ConcatPayloads(chunks) ==
    IF chunks = <<>> THEN ""
    ELSE LET c == Head(chunks)
         IN  (IF c.choices /\ c.content # None THEN c.content ELSE "")
                \o ConcatPayloads(Tail(chunks))

\* C6: when the stream ends without error, an assistant message is committed
\* exactly when the chunks' non-null contents concatenate to a non-empty
\* text, and its content is that concatenation.
C6_Step ==
    (last'.op = "turn_end" /\ pc = "streaming")
    => LET before == heap[current_session].messages
           after == heap'[current_session'].messages
           expected == ConcatPayloads(response)
       IN  /\ current_session' = current_session
           /\ expected # "" =>
                 /\ Len(after) = Len(before) + 1
                 /\ after[Len(after)].role = "assistant"
                 /\ after[Len(after)].content = expected
           /\ Len(after) > Len(before) =>
                 after[Len(after)].content = expected

C6_Concatenation == [][C6_Step]_vars

\* C6 witness: a response of MaxChunks chunks, one of them without text, has
\* been committed as "ab"
C6_Witness ==
    /\ pc = "prompt"
    /\ last.op = "turn_end" /\ last.n = MaxChunks /\ last.arg = 2
    /\ heap[current_session].messages # <<>>
    /\ LET messages == heap[current_session].messages
       IN  /\ messages[Len(messages)].role = "assistant"
           /\ messages[Len(messages)].content = "ab"

\* no chunk of the response has text
NoText(chunks) ==
    \A i \in 1..Len(chunks) :
        ~chunks[i].choices \/ chunks[i].content \in {None, ""}

\* C7: when the stream ends without error, the accumulator is empty exactly
\* when no chunk had text; with an empty accumulator nothing is appended or
\* saved and the session ends with the user message; otherwise one
\* assistant message with the accumulated text is appended and saved.
C7_Step ==
    (last'.op = "turn_end" /\ pc = "streaming")
    => LET before == heap[current_session].messages
           after == heap'[current_session'].messages
           id == heap[current_session].id
       IN  /\ current_session' = current_session
           /\ NoText(response) <=> assistant_content = ""
           /\ IF assistant_content = ""
              THEN /\ heap' = heap
                   /\ files' = files
                   /\ Len(after) = Len(turn.before) + 1
                   /\ UserMessageIn(after, turn)
              ELSE /\ after = Append(before, after[Len(after)])
                   /\ after[Len(after)].role = "assistant"
                   /\ after[Len(after)].content = assistant_content
                   /\ \A r \in DOMAIN heap :
                         r # current_session => heap'[r] = heap[r]
                   /\ RecordMessages(files', id).ok
                   /\ RecordMessages(files', id).messages = after

C7_EmptyResponse == [][C7_Step]_vars

\* C7 witness: a response whose chunks had no text has ended, and the
\* session ends with the user message
C7_Witness ==
    /\ pc = "prompt"
    /\ last.op = "turn_end" /\ last.arg = 0 /\ last.n = MaxChunks
    /\ LET messages == heap[current_session].messages
       IN  /\ messages # <<>>
           /\ messages[Len(messages)].role = "user"

----------------------------------------------------------------------------
(* Claims about the conversation model, checked under PureSpec. *)

\* the {role, content} pairs of the stored messages, in stored order, are
\* the entries of api from position first on
PairsFrom(api, s, first) ==
    \A i \in 1..Len(s.messages) :
        /\ api[first + i - 1].role = s.messages[i].role
        /\ api[first + i - 1].content = s.messages[i].content
        /\ DOMAIN api[first + i - 1] = {"role", "content"}

\* C8: save_session, then the dict cleared, then load_session(id) gives a
\* Session equal to the saved one in id, created_at, system_prompt and in
\* every message's role, content and timestamp, in order.
C8_RoundTrip ==
    pc = "loaded" =>
        /\ last.exc = "none"
        /\ Len(sessions) = 1
        /\ LET saved == heap[current_session]
               loaded == heap[sessions[1].val]
           IN  /\ sessions[1].key = saved.id
               /\ sessions[1].val # current_session
               /\ loaded.id = saved.id
               /\ loaded.created_at = saved.created_at
               /\ loaded.system_prompt = saved.system_prompt
               /\ Len(loaded.messages) = Len(saved.messages)
               /\ \A i \in 1..Len(saved.messages) :
                     /\ loaded.messages[i].role = saved.messages[i].role
                     /\ loaded.messages[i].content = saved.messages[i].content
                     /\ loaded.messages[i].timestamp = saved.messages[i].timestamp

\* C8 witness: a session with a system prompt and MaxMsgs messages, the
\* last one with empty content, has been saved and loaded back
C8_Witness ==
    /\ pc = "loaded"
    /\ heap[current_session].system_prompt = "P"
    /\ Len(heap[current_session].messages) = MaxMsgs
    /\ heap[current_session].messages[MaxMsgs].content = ""
    /\ heap[sessions[1].val].system_prompt = "P"

\* C10 as stated: with system_prompt set to P (any string) the projection
\* has n + 1 entries, {system, P} first and then the n stored pairs; with no
\* system_prompt it has exactly the n stored pairs.
C10_AsStated ==
    pc = "api" =>
        LET s == heap[current_session]
            n == Len(s.messages)
        IN  IF s.system_prompt # None
            THEN /\ Len(out) = n + 1
                 /\ out[1] = [role |-> "system", content |-> s.system_prompt]
                 /\ PairsFrom(out, s, 2)
            ELSE /\ Len(out) = n
                 /\ PairsFrom(out, s, 1)

\* C10 amended: with system_prompt set to a non-empty string P the
\* projection has n + 1 entries, {system, P} first and then the n stored
\* pairs; with no system_prompt, or the empty string, it has exactly the n
\* stored pairs.
C10_ApiProjection ==
    pc = "api" =>
        LET s == heap[current_session]
            n == Len(s.messages)
        IN  IF s.system_prompt # None /\ s.system_prompt # ""
            THEN /\ Len(out) = n + 1
                 /\ out[1] = [role |-> "system", content |-> s.system_prompt]
                 /\ PairsFrom(out, s, 2)
            ELSE /\ Len(out) = n
                 /\ PairsFrom(out, s, 1)

\* C10 witness: the projection of a session with system_prompt "P" and two
\* stored messages has three entries
C10_Witness ==
    /\ pc = "api"
    /\ heap[current_session].system_prompt = "P"
    /\ Len(heap[current_session].messages) = 2
    /\ Len(out) = 3

----------------------------------------------------------------------------
(* Claims about a store built on a directory of any content, checked under *)
(* BootSpec.                                                                *)

\* C11: when load_all_sessions has run, by itself or in the constructor, it
\* has raised nothing, every record a Session can be built from is in the
\* map under its id, and no file of another kind has added an entry.
C11_LoadAllSkipsBadRecords ==
    last.op \in {"init", "load_all_sessions"} =>
        /\ last.exc = "none"
        /\ \A id \in WellFormed(files) :
              /\ id \in DictKeys(sessions)
              /\ heap[DictGet(sessions, id)] = ReadRecord(files[id]).session
        /\ \A id \in (DOMAIN files) \ WellFormed(files) :
              id \notin DictKeys(sessions)

\* C12: a get_session, switch_to_session or delete_session call with an id
\* that is not a key of the map raises KeyError and leaves the heap, the
\* map, current_session and the files as they were, whether or not a file
\* of that stem exists.
C12_Step ==
    (/\ last'.op \in {"get_session", "switch_to_session", "delete_session"}
     /\ last'.arg \notin DictKeys(sessions))
    => /\ last'.exc = "KeyError"
       /\ heap' = heap
       /\ sessions' = sessions
       /\ current_session' = current_session
       /\ files' = files

C12_NotFound == [][C12_Step]_vars

\* C12 witness: delete_session has failed for an id that is not in the map
\* while a file of that stem is in the directory
C12_Witness ==
    /\ last.op = "delete_session"
    /\ last.exc = "KeyError"
    /\ last.arg \notin DictKeys(sessions)
    /\ last.arg \in DOMAIN files
    /\ sessions # <<>>

----------------------------------------------------------------------------
(* Claims about the store on a directory where file operations can fail,   *)
(* checked under FaultSpec.                                                *)

\* C13: a delete_session call for an id of the map either succeeds, and then
\* the file and the map entry of the id are gone, the other files and the
\* other sessions of the map are as they were, no entry is added unless the
\* last session went, and current_session is as it was if it was another
\* session; or it fails, removing the file, and then the heap, the map,
\* current_session and the files are as they were.  It fails only if the
\* file was there.
C13_Step ==
    (last'.op = "delete_session" /\ last'.arg \in DictKeys(sessions))
    => LET id == last'.arg
           others == DictKeys(sessions) \ {id}
       IN  /\ last'.exc \in {"none", "OSError"}
           /\ id \notin DOMAIN files => last'.exc = "none"
           /\ last'.exc = "none" =>
                 /\ id \notin DOMAIN files'
                 /\ id \notin DictKeys(sessions')
                 /\ DOMAIN files' = (DOMAIN files) \ {id}
                 /\ \A f \in DOMAIN files' : files'[f] = files[f]
                 /\ \A k \in others :
                       /\ k \in DictKeys(sessions')
                       /\ heap'[DictGet(sessions', k)] = heap[DictGet(sessions, k)]
                 /\ others # {} => DictKeys(sessions') = others
                 /\ others = {} => Len(sessions') = 1
                 /\ (current_session # NoneRef /\ heap[current_session].id # id)
                       => /\ current_session' # NoneRef
                          /\ heap'[current_session'] = heap[current_session]
                          /\ DictGet(sessions', heap[current_session].id)
                                = current_session'
           /\ last'.exc = "OSError" =>
                 /\ heap' = heap
                 /\ sessions' = sessions
                 /\ current_session' = current_session
                 /\ files' = files

C13_DeleteFrame == [][C13_Step]_vars

\* C13 witness: removing the file of a session of the map has failed, and
\* the session is still in the map and the file in the directory
C13_Witness ==
    /\ last.op = "delete_session"
    /\ last.exc = "OSError"
    /\ last.arg \in DictKeys(sessions)
    /\ last.arg \in DOMAIN files
    /\ Len(sessions) > 1

----------------------------------------------------------------------------
(* Claims about the frame of the store's operations, checked under Spec.   *)

\* C14: a create_session(system_prompt) call adds one entry to the map, at
\* its end, under an id that was not a key; the new session has no message
\* and the system_prompt given, and is current; the entries the map had are
\* as they were, in their order; the files are as they were.
C14_Step ==
    (last'.op = "create_session")
    => LET n == Len(sessions)
       IN  /\ last'.exc = "none"
           /\ Len(sessions') = n + 1
           /\ sessions'[n + 1].key \notin DictKeys(sessions)
           /\ sessions'[n + 1].val = current_session'
           /\ heap'[current_session'].id = sessions'[n + 1].key
           /\ heap'[current_session'].messages = <<>>
           /\ heap'[current_session'].system_prompt = last'.arg
           /\ \A i \in 1..n :
                 /\ sessions'[i].key = sessions[i].key
                 /\ heap'[sessions'[i].val] = heap[sessions[i].val]
                 /\ sessions'[i].val # current_session'
           /\ files' = files

C14_CreateFrame == [][C14_Step]_vars

\* C14 witness: a session with a system prompt has been created in a store
\* that had a session with a file; the new session has no file
C14_Witness ==
    /\ last.op = "create_session"
    /\ last.arg = "P"
    /\ Len(sessions) > 1
    /\ heap[current_session].system_prompt = "P"
    /\ DOMAIN files # {}
    /\ heap[current_session].id \notin DOMAIN files

\* C15: a switch_to_session call with an id of the map raises nothing and
\* makes the session the map holds under the id current; the map has the
\* same keys in the same order, each with the same session, and the files
\* are as they were.
C15_Step ==
    (last'.op = "switch_to_session" /\ last'.arg \in DictKeys(sessions))
    => /\ last'.exc = "none"
       /\ current_session' = DictGet(sessions', last'.arg)
       /\ heap'[current_session'] = heap[DictGet(sessions, last'.arg)]
       /\ Len(sessions') = Len(sessions)
       /\ \A i \in 1..Len(sessions) :
             /\ sessions'[i].key = sessions[i].key
             /\ heap'[sessions'[i].val] = heap[sessions[i].val]
       /\ files' = files

C15_SwitchFrame == [][C15_Step]_vars

\* C15 witness: the store has switched from one session to another, which
\* is not the first of the map, and there is a file
C15_Witness ==
    /\ last.op = "switch_to_session"
    /\ last.exc = "none"
    /\ last.cur # last.arg
    /\ Len(sessions) > 1
    /\ sessions[1].val # current_session
    /\ heap[current_session].id = last.arg
    /\ DOMAIN files # {}

----------------------------------------------------------------------------
(* Claims about construction, checked under BootSpec. *)

\* C16: when the constructor returns, the directory exists, the files are
\* as they were, every record a Session can be built from is in the map
\* under its id, and current_session is a session of the map; if there is
\* such a record the map holds those records' sessions and no other, and no
\* id has been drawn; if there is none the map holds one session, new, with
\* no message and no system prompt, and it is current.
C16_Step ==
    (last'.op = "init" /\ last'.exc = "none")
    => /\ sessions_dir' # "absent"
       /\ files' = files
       /\ \A id \in WellFormed(files) :
             /\ id \in DictKeys(sessions')
             /\ heap'[DictGet(sessions', id)] = ReadRecord(files[id]).session
       /\ current_session' # NoneRef
       /\ \E i \in 1..Len(sessions') : sessions'[i].val = current_session'
       /\ WellFormed(files) # {} =>
             /\ DictKeys(sessions') = WellFormed(files)
             /\ Len(sessions') = Cardinality(WellFormed(files))
             /\ uuids' = uuids
       /\ WellFormed(files) = {} =>
             /\ Len(sessions') = 1
             /\ uuids' = uuids + 1
             /\ sessions'[1].key = uuids + 1
             /\ sessions'[1].key \notin DOMAIN files
             /\ heap'[current_session'] = NewSession(uuids + 1, now', None)

C16_Bootstrap == [][C16_Step]_vars

\* C16 witness: a store has been built on a directory that holds files, none
\* of which a Session can be built from; its one session is new
C16_Witness ==
    /\ last.op = "init"
    /\ last.exc = "none"
    /\ pc = "ready"
    /\ DOMAIN files # {}
    /\ WellFormed(files) = {}
    /\ Len(sessions) = 1
    /\ heap[current_session].messages = <<>>
    /\ heap[current_session].id \notin DOMAIN files

----------------------------------------------------------------------------
(* Claims about the completion client's errors, checked under TurnSpec.    *)

\* the classification each kind of failure is claimed to be reported under
Classification(e) ==
    IF e = "APITimeoutError" THEN "Request timed out"
    ELSE IF e = "APIError" THEN "API error"
    ELSE "Unexpected error"

\* C17: the LLMError raised for a failure of the request or of the stream
\* carries the classification of the failure's kind: a timeout's for
\* APITimeoutError, the API error's for another APIError, the unexpected
\* error's for any other exception.
C17_ErrorClassified ==
    last.op = "turn_failed" =>
        /\ shown # <<>>
        /\ shown[Len(shown)] = display_error(Classification(last.cause))

----------------------------------------------------------------------------
(* Claims about the commands and the errors of the loop, checked under     *)
(* LoopSpec.                                                               *)

\* C18: a line that starts with "/" and has no known command word, the line
\* "/" included, makes the loop display one error and prompt again, with
\* the heap, the map, current_session and the files as they were and no
\* request opened.
C18_Step ==
    (pc = "prompt" /\ last'.op \in {"foo", "/"})
    => /\ pc' = "prompt"
       /\ ErrorsShown(shown') = 1
       /\ heap' = heap
       /\ sessions' = sessions
       /\ current_session' = current_session
       /\ files' = files
       /\ ~turn'.active

C18_UnknownCommand == [][C18_Step]_vars

\* C19: after the command "new", with or without a text, the current
\* session is a new one, without messages, whose system_prompt is the text
\* given, or None when no text was given.
C19_NewWithPrompt ==
    last.op = "new" =>
        /\ pc = "prompt"
        /\ heap[current_session].id = uuids
        /\ heap[current_session].messages = <<>>
        /\ heap[current_session].system_prompt = last.arg

----------------------------------------------------------------------------
(* Claims about the loop on a directory where file operations can fail,    *)
(* checked under FaultLoopSpec.                                            *)

\* an error has arisen in the last step of the loop: a session was not
\* found, the request or the stream failed, or a file operation failed
ErrorArisen ==
    \/ last.op = "turn_failed"
    \/ last.exc = "OSError"
    \/ \E i \in 1..Len(shown) : shown[i] = display_error("Session not found")

\* C20: after an error has arisen in the loop, one error has been displayed
\* and the loop is at the prompt; the loop has ended only after the command
\* exit or quit or the end of the input.
C20_LoopSurvivesErrors ==
    /\ ErrorArisen => (pc = "prompt" /\ ErrorsShown(shown) = 1)
    /\ pc \notin {"start", "prompt", "request", "streaming"}
          => (pc = "exit" /\ last.op \in {"exit", "quit", "eof"})

----------------------------------------------------------------------------
(* Claims about an interrupted turn, checked under TurnSpec. *)

\* C21: when the turn is interrupted while the request or the stream is
\* awaited, the heap, the map, current_session and the files are as they
\* were; the session holds its pre-turn messages followed by the user
\* message and its file holds the same list; and afterwards no chunk can be
\* consumed.
C21_Step ==
    (last'.op = "interrupt" /\ turn.active)
    => LET s == heap'[turn.session]
       IN  /\ heap' = heap
           /\ sessions' = sessions
           /\ current_session' = current_session
           /\ files' = files
           /\ Len(s.messages) = Len(turn.before) + 1
           /\ UserMessageIn(s.messages, turn)
           /\ RecordMessages(files', s.id).ok
           /\ RecordMessages(files', s.id).messages = s.messages
           /\ pc' \notin {"request", "streaming"}

C21_Inv == last.op = "interrupt" => ~ENABLED TurnChunk

C21_Cancellation == [](C21_Inv) /\ [][C21_Step]_vars

\* C21 witness: a turn has been interrupted after text had been accumulated,
\* and the session ends with the user message
C21_Witness ==
    /\ last.op = "interrupt"
    /\ last.arg > 0
    /\ LET messages == heap[current_session].messages
       IN  /\ messages # <<>>
           /\ messages[Len(messages)].role = "user"

----------------------------------------------------------------------------
(* Further claims about the conversation model, checked under PureSpec.    *)

\* how many entries of a list of messages or pairs have the role system
SystemEntries(list) ==
    Cardinality({i \in 1..Len(list) : list[i].role = "system"})

\* C22: the projection of a session whose stored messages include one of
\* role system is the stored pairs alone, with as many system entries as are
\* stored; the projection of a session that stores none has at most one.
C22_NoSecondSystemEntry ==
    pc = "api" =>
        LET s == heap[current_session]
        IN  IF SystemEntries(s.messages) > 0
            THEN /\ Len(out) = Len(s.messages)
                 /\ PairsFrom(out, s, 1)
                 /\ SystemEntries(out) = SystemEntries(s.messages)
            ELSE SystemEntries(out) <= 1

IsPrefix(a, b) == Len(a) <= Len(b) /\ SubSeq(b, 1, Len(a)) = a

\* what each call on the session does to its message list and its record
C23_Step ==
    LET id  == heap[current_session].id
        old == heap[current_session].messages
        new == heap'[current_session].messages
    IN  /\ last'.op = "get_messages_for_api" =>
              /\ heap' = heap
              /\ files' = files
              /\ out' = get_messages_for_api(heap[current_session])
        /\ last'.op = "add_message" /\ last' # last =>
              /\ new = Append(old, last'.arg)
              /\ files' = files
        /\ last'.op = "save_session" =>
              /\ heap' = heap
              /\ RecordMessages(files', id).ok
              /\ RecordMessages(files', id).messages = old

\* the session's list is a list of timestamped messages, and its record holds
\* a prefix of it
C23_Inv ==
    pc = "session" =>
        LET s == heap[current_session]
        IN  /\ \A i \in 1..Len(s.messages) :
                  DOMAIN s.messages[i] = {"role", "content", "timestamp"}
            /\ s.id \in DOMAIN files =>
                  /\ RecordMessages(files, s.id).ok
                  /\ IsPrefix(RecordMessages(files, s.id).messages, s.messages)

\* C23: get_messages_for_api leaves the session and its record as they were;
\* however it is interleaved with add_message and save_session, the session's
\* messages are exactly those passed to add_message, in order, and the record
\* save_session writes holds exactly those messages, never the system entry
\* of the projection.
C23_ProjectionReadOnly == [](C23_Inv) /\ [][C23_Step]_vars

\* a record written after a projection with a system entry and a later
\* add_message
C23_Witness ==
    /\ pc = "session"
    /\ last.op = "save_session"
    /\ Truthy(heap[current_session].system_prompt)
    /\ out # <<>>
    /\ out[1] = [role |-> "system",
                 content |-> heap[current_session].system_prompt]
    /\ Len(out) = 1
    /\ Len(heap[current_session].messages) >= 1
    /\ RecordMessages(files, heap[current_session].id).messages
          = heap[current_session].messages

\* the sessions of the map gain no message: a session that was there keeps
\* its list, a new one has none
NoMessageAppended ==
    /\ \A id \in DictKeys(sessions') :
          LET new == heap'[DictGet(sessions', id)].messages
          IN  IF id \in DictKeys(sessions)
              THEN new = heap[DictGet(sessions, id)].messages
              ELSE new = <<>>
    /\ current_session' # NoneRef =>
          \/ heap'[current_session'].messages = <<>>
          \/ /\ current_session # NoneRef
             /\ heap'[current_session'].messages = heap[current_session].messages
          \/ heap'[current_session'].id \in DictKeys(sessions)

C24_Step ==
    \* a request is opened by a chat line at the prompt and by nothing else
    /\ pc' = "request" /\ pc # "request" =>
          /\ pc = "prompt"
          /\ last'.op = "chat"
    /\ pc = "request" => pc' \in {"request", "streaming", "prompt"}
    /\ pc = "streaming" => pc' \in {"streaming", "prompt"}
    \* a chat line starts one turn with one user message and one request
    /\ pc = "prompt" /\ last'.op = "chat" =>
          /\ ~turn.active
          /\ turn'.active
          /\ pc' = "request"
          /\ heap'[turn'.session].messages
                = Append(turn'.before, Message("user", turn'.text, now'))
          /\ turn'.before = heap[current_session].messages
    \* the turn ends once, committed or failed, at the prompt
    /\ turn.active /\ ~turn'.active =>
          /\ pc \in {"request", "streaming"}
          /\ pc' = "prompt"
          /\ \/ last'.op = "turn_end" /\ pc = "streaming"
                   /\ ErrorsShown(shown') = ErrorsShown(shown)
             \/ last'.op = "turn_failed"
                   /\ ErrorsShown(shown') = ErrorsShown(shown) + 1
    /\ turn.active /\ turn'.active => turn' = turn
    \* any other line at the prompt starts no turn, appends no message and
    \* opens no request
    /\ pc = "prompt" /\ last'.op # "chat" =>
          /\ turn' = NoTurn
          /\ pc' \notin {"request", "streaming"}
          /\ NoMessageAppended

C24_Inv ==
    /\ turn.active <=> pc \in {"request", "streaming"}
    /\ pc = "prompt" => turn = NoTurn /\ out = <<>>

\* C24: a chat line at the prompt starts one turn, which opens one request and
\* never another, and ends once, committed or failed, back at the prompt; an
\* empty line or a command line starts no turn, appends no message and opens
\* no request.
C24_OneTurnOneRequest ==
    /\ [](C24_Inv)
    /\ [][C24_Step]_vars
    /\ (turn.active ~> (pc = "prompt" /\ ~turn.active))

\* back at the prompt after a failed request, with nothing open
C24_Witness ==
    /\ pc = "prompt"
    /\ last.op = "turn_failed"
    /\ ~turn.active
    /\ ErrorsShown(shown) = 1

\* a chunk step adds the fragment it yields to the accumulator and to the
\* streaming buffer, and a chunk that yields nothing changes neither
C25_Step ==
    pc = "streaming" /\ response' # response /\ Len(response') > Len(response) =>
        LET chunk == response'[Len(response')]
        IN  IF Yields(chunk)
            THEN /\ assistant_content' = assistant_content \o chunk.content
                 /\ streaming_content' = streaming_content \o chunk.content
            ELSE /\ assistant_content' = assistant_content
                 /\ streaming_content' = streaming_content

C25_Inv ==
    /\ pc \in {"request", "streaming"} => streaming_content = assistant_content
    /\ pc = "prompt" => streaming_content = ""

\* C25: wherever the turn waits for the request or for the next fragment the
\* UI's streaming buffer equals the accumulator, every fragment having been
\* added to both in the same step; and at every prompt the streaming buffer
\* is empty.
C25_LiveBuffer == [](C25_Inv) /\ [][C25_Step]_vars

\* waiting for the third fragment with two fragments in the buffer
C25_Witness ==
    /\ pc = "streaming"
    /\ Len(response) >= 2
    /\ streaming_content = "ab"
    /\ assistant_content = "ab"

\* a chat line either has its user message in the durable record and goes on
\* to the request, or leaves run_chat_loop with the OSError of save_session,
\* no turn and no request; an assistant message is appended only in a turn
\* whose user message is in the durable record
C26_Step ==
    /\ pc = "prompt" /\ last'.op = "chat" =>
          \/ /\ last'.exc = "none"
             /\ pc' = "request"
             /\ turn'.active
             /\ UserCommitted(heap', files', turn')
          \/ /\ last'.exc = "OSError"
             /\ pc' = "crashed"
             /\ turn' = NoTurn
             /\ out' = <<>>
             /\ ErrorsShown(shown') = 1
    /\ pc = "streaming" /\ last'.op = "turn_end" =>
          /\ UserCommitted(heap, files, turn)
          /\ last'.exc # "none" => pc' = "crashed"
    /\ pc = "crashed" => pc' = "crashed"

C26_Inv ==
    /\ pc \in {"request", "streaming"} =>
          /\ turn.active
          /\ UserCommitted(heap, files, turn)
    /\ pc = "crashed" /\ last.op \in {"chat", "turn_end"} =>
          /\ last.exc = "OSError"
          /\ ~turn.active
          /\ ~ENABLED OpenRequest
          /\ ~ENABLED TurnChunk

\* C26: an OSError of save_session leaves run_chat_loop; when the save of the
\* user message fails no request is opened and no turn is in progress, so a
\* request is open and an assistant message is appended only for a user
\* message that is in the durable record.
C26_SaveFailurePropagates == [](C26_Inv) /\ [][C26_Step]_vars

\* the save of the user message failed: the message is in memory and not in
\* a readable record, and the loop has been left
C26_Witness ==
    /\ pc = "crashed"
    /\ last.op = "chat"
    /\ last.exc = "OSError"
    /\ Len(heap[current_session].messages) >= 1
    /\ RecordMessages(files, CurrentId).messages
          # heap[current_session].messages

\* the session the map of the next state holds under id
EntryAfter(id) == heap'[DictGet(sessions', id)]

C27_Step ==
    last'.op = "load_all_sessions" /\ last'.exc = "none" =>
        /\ DictKeys(sessions') = DictKeys(sessions) \cup WellFormed(files)
        /\ \A id \in WellFormed(files) :
              EntryAfter(id) = ReadRecord(files[id]).session
        /\ \A id \in DictKeys(sessions) \ WellFormed(files) :
              EntryAfter(id) = heap[DictGet(sessions, id)]
        /\ sessions' # <<>> =>
              /\ current_session'
                    = SortNewestFirst(heap', DictValues(sessions'))[1]
              /\ \A id \in DictKeys(sessions') :
                    EntryAfter(id).created_at
                       <= heap'[current_session'].created_at
        /\ sessions' = <<>> =>
              /\ current_session' = current_session
              /\ heap' = heap

\* the call the constructor makes, on an empty map: with nothing loaded
\* current_session stays None
C27_Inv ==
    \A order \in GlobOrders(files) :
        LET l == load_all_sessions(NewManager(files), order)
        IN  l.exc = "none" =>
              /\ DictKeys(l.m.sessions) = WellFormed(files)
              /\ l.m.sessions = <<>> => l.m.current_session = NoneRef
              /\ l.m.sessions # <<>> =>
                    l.m.current_session = list_sessions(l.m)[1]

\* C27: when load_all_sessions returns, the map holds every well-formed
\* record under its id, as the record has it, and keeps its other sessions;
\* if the map is not empty current_session is the first of list_sessions(),
\* which no session is newer than; if it is empty current_session is as it
\* was.
C27_LoadAll == [](C27_Inv) /\ [][C27_Step]_vars

\* after a load that found a record and kept a session that has none, with
\* the current session the record's, its unsaved message gone
C27_Witness ==
    /\ pc = "ready"
    /\ last.op = "load_all_sessions"
    /\ last.exc = "none"
    /\ Len(sessions) = 2
    /\ WellFormed(files) # {}
    /\ DictKeys(sessions) \ WellFormed(files) # {}
    /\ CurrentId \in WellFormed(files)
    /\ last.cur = CurrentId

C28_Step ==
    last'.op = "load_session" /\ last' # last =>
        LET id == last'.arg
        IN  IF id \notin DOMAIN files
            THEN /\ last'.exc = "KeyError"
                 /\ UNCHANGED storeVars
            ELSE IF id \notin WellFormed(files)
            THEN /\ last'.exc \in {"JSONDecodeError", "KeyError", "TypeError"}
                 /\ UNCHANGED storeVars
            ELSE /\ last'.exc = "none"
                 /\ DictKeys(sessions') = DictKeys(sessions) \cup {id}
                 /\ EntryAfter(id) = ReadRecord(files[id]).session
                 /\ \A k \in DictKeys(sessions) \ {id} :
                       EntryAfter(k) = heap[DictGet(sessions, k)]
                 /\ files' = files
                 /\ current_session # NoneRef =>
                       heap'[current_session'] = heap[current_session]

\* C28: load_session(id) makes the session read from the record of id the
\* map's entry for id and leaves the other entries alone; without a record
\* it raises KeyError, with a record no Session can be built from it raises
\* the error of the parse, and in both cases the map, the sessions and
\* current_session are as they were.
C28_LoadOne == [][C28_Step]_vars

\* load_session raised on a file that is not JSON
C28_Witness ==
    /\ pc = "ready"
    /\ last.op = "load_session"
    /\ last.exc = "JSONDecodeError"
    /\ last.arg \in DOMAIN files
    /\ last.arg \notin DictKeys(sessions)

\* C29 as stated: with a system_prompt configured (any string) the list sent
\* is {system, system_prompt} and then the caller's messages; with none it is
\* the caller's messages; the caller's list is as it was.
C29_AsStated ==
    pc = "sent" =>
        /\ out = IF last.system_prompt # None
                 THEN <<[role |-> "system", content |-> last.system_prompt]>>
                         \o last.arg
                 ELSE last.arg
        /\ last.after = last.arg

\* C29 amended: with a non-empty system_prompt configured the list sent is
\* {system, system_prompt} and then the caller's messages; with none, or the
\* empty string, it is the caller's messages; the caller's list is as it was.
C29_SentMessages ==
    pc = "sent" =>
        /\ out = IF last.system_prompt # None /\ last.system_prompt # ""
                 THEN <<[role |-> "system", content |-> last.system_prompt]>>
                         \o last.arg
                 ELSE last.arg
        /\ last.after = last.arg

\* a client with system_prompt "P" sent three entries for a list of two
C29_Witness ==
    /\ pc = "sent"
    /\ last.system_prompt = "P"
    /\ Len(last.arg) = 2
    /\ Len(out) = 3
    /\ out[1].role = "system"

\* C30: from an empty directory on, at every prompt a session of the map
\* without messages has no record, a session with messages has a record that
\* reads back as the session in memory (id, created_at, system_prompt and
\* messages), and every record belongs to a session of the map.
C30_StoreMirrorsMemory ==
    pc = "prompt" =>
        /\ DOMAIN files \subseteq DictKeys(sessions)
        /\ \A id \in DictKeys(sessions) :
              LET s == heap[DictGet(sessions, id)]
              IN  IF s.messages = <<>>
                  THEN id \notin DOMAIN files
                  ELSE /\ id \in DOMAIN files
                       /\ ReadRecord(files[id]).exc = "none"
                       /\ ReadRecord(files[id]).session = s
                       /\ s.id = id

\* at the prompt after a committed turn, with a second session that has no
\* message and no record
C30_Witness ==
    /\ pc = "prompt"
    /\ last.op = "turn_end"
    /\ Len(sessions) = 2
    /\ \E id \in DictKeys(sessions) :
          /\ Len(heap[DictGet(sessions, id)].messages) = 2
          /\ id \in DOMAIN files
    /\ \E id \in DictKeys(sessions) :
          /\ heap[DictGet(sessions, id)].messages = <<>>
          /\ id \notin DOMAIN files

\* the step leaves alone the map, current_session, every session but the
\* current one and every record but the current session's
TurnFrame ==
    /\ sessions' = sessions
    /\ current_session' = current_session
    /\ DOMAIN heap' = DOMAIN heap
    /\ \A r \in DOMAIN heap \ {current_session} : heap'[r] = heap[r]
    /\ heap'[current_session].id = heap[current_session].id
    /\ heap'[current_session].created_at = heap[current_session].created_at
    /\ heap'[current_session].system_prompt = heap[current_session].system_prompt
    /\ DOMAIN files' \subseteq DOMAIN files \cup {CurrentId}
    /\ \A id \in DOMAIN files \ {CurrentId} :
          id \in DOMAIN files' /\ files'[id] = files[id]

C31_Step ==
    \* the chat line appends the user message to the current session
    /\ pc = "prompt" /\ last'.op = "chat" =>
          /\ TurnFrame
          /\ turn'.session = current_session
          /\ turn'.before = heap[current_session].messages
          /\ heap'[current_session].messages
                = Append(heap[current_session].messages,
                         Message("user", turn'.text, now'))
    \* the steps of the turn: nothing but its end changes the store, and
    \* the end appends the assistant message, if any, to the same session
    /\ pc \in {"request", "streaming"} =>
          /\ TurnFrame
          /\ last'.op \in {"open", "chunk", "turn_end", "turn_failed"}
          /\ turn.session = current_session
          /\ LET old == heap[current_session].messages
                 new == heap'[current_session].messages
             IN  IF last'.op = "turn_end" /\ assistant_content # ""
                 THEN /\ new = Append(old, Message("assistant",
                                                   assistant_content, now'))
                      /\ Len(new) = Len(turn.before) + 2
                 ELSE /\ heap' = heap
                      /\ files' = files
                      /\ Len(new) = Len(turn.before) + 1

C31_Inv ==
    pc \in {"request", "streaming"} =>
        /\ turn.session = current_session
        /\ ~ENABLED CommandLine
        /\ ~ENABLED ChatInput
        /\ SubSeq(heap[current_session].messages, 1, Len(turn.before))
              = turn.before
        /\ Len(heap[current_session].messages) = Len(turn.before) + 1

\* C31: a chat turn appends the user message and, when it commits, the
\* assistant message to the end of the session that was current when the
\* line was read, one or two messages in all; the map, current_session,
\* every other session and every other record stay as they were, and no
\* command or other line is processed before the turn has ended.
C31_TurnFrame == [](C31_Inv) /\ [][C31_Step]_vars

\* a committed turn on the second of two sessions, the first holding the
\* messages of an earlier turn
C31_Witness ==
    /\ pc = "prompt"
    /\ last.op = "turn_end"
    /\ last.arg > 0
    /\ Len(sessions) = 2
    /\ Len(heap[current_session].messages) = 2
    /\ \E r \in DOMAIN heap \ {current_session} :
          Len(heap[r].messages) >= 1

\* a list of user and assistant messages that starts with a user message and
\* in which every assistant message has text and follows a user message
WellFormedHistory(list) ==
    /\ \A i \in 1..Len(list) : list[i].role \in {"user", "assistant"}
    /\ list # <<>> => list[1].role = "user"
    /\ \A i \in 1..Len(list) :
          list[i].role = "assistant" =>
             /\ i > 1
             /\ list[i - 1].role = "user"
             /\ list[i].content # ""

\* C32: in the interactive loop started on an empty directory, every
\* session holds user and assistant messages only, a user message first,
\* each assistant message right after a user message and with text.
C32_HistoryShape ==
    \A r \in DOMAIN heap : WellFormedHistory(heap[r].messages)

\* a session holding a failed turn's user message, a user message and its
\* reply
C32_Witness ==
    /\ pc = "prompt"
    /\ \E r \in DOMAIN heap :
          /\ Len(heap[r].messages) = 3
          /\ heap[r].messages[1].role = "user"
          /\ heap[r].messages[2].role = "user"
          /\ heap[r].messages[3].role = "assistant"

\* the ids of the sessions of the map that hold a message
WithMessages == {id \in DictKeys(sessions) :
                    heap[DictGet(sessions, id)].messages # <<>>}

\* the map after the restart holds the sessions of ids as they were before
\* it, and current_session is one of them that none is newer than
Recovered(ids) ==
    /\ DictKeys(sessions') = ids
    /\ \A id \in ids : EntryAfter(id) = heap[DictGet(sessions, id)]
    /\ current_session' # NoneRef
    /\ heap'[current_session'].id \in ids
    /\ current_session' = DictGet(sessions', heap'[current_session'].id)
    /\ \A id \in ids :
          EntryAfter(id).created_at <= heap'[current_session'].created_at

\* C33 as stated: after a restart the map holds exactly the sessions that
\* had a message and were not deleted, each as it was, and current_session
\* is the newest of them.
C33_AsStated == [][last'.op = "restart" => Recovered(WithMessages)]_vars

C33_Step ==
    last'.op = "restart" =>
        IF WithMessages # {}
        THEN Recovered(WithMessages)
        ELSE /\ Len(sessions') = 1
             /\ current_session' = sessions'[1].val
             /\ heap'[current_session'].messages = <<>>
             /\ heap'[current_session'].id \notin DictKeys(sessions)
             /\ heap'[current_session'].id = uuids'
             /\ uuids' = uuids + 1

\* C33 amended: after a restart, if some session of the map had a message,
\* the map holds exactly the sessions that had a message and were not
\* deleted, each as it was, and current_session is one of them that none is
\* newer than; if none had, the map holds one new session without messages,
\* which is current.
C33_Restart == [][C33_Step]_vars

\* a restart that recovered a session with messages out of a map of two
C33_Witness ==
    /\ pc = "prompt"
    /\ last.op = "restart"
    /\ last.n = 2
    /\ Len(sessions) = 1
    /\ heap[current_session].messages # <<>>

====
